---- MODULE Spec2Model ----
(***************************************************************************)
(* Motion-planning core of sionna-rt-jamming: the MotionEngine trajectory  *)
(* store (src/core/engine.py, src/archive/motion_engine.py), the world     *)
(* model and line-of-sight check (src/core/engine.py, src/core/utils.py),  *)
(* A* search (src/core/utils.py) and the GraphNav query loop               *)
(* (src/core/strategies.py).                                               *)
(*                                                                         *)
(* Each subsystem has its own specification over its own variables; the    *)
(* variables of the other subsystems stay at their initial values.         *)
(***************************************************************************)
EXTENDS Integers, Sequences, FiniteSets, TLC

VARIABLES
    jammer_paths,          \* MotionEngine._jammer_paths: id -> sequence of positions
    jammer_metadata,       \* MotionEngine._jammer_metadata: id -> metadata
    padding_preferences,   \* MotionEngine._padding_preferences: id -> mode string
    call,                  \* the engine call that produced this state (caller's position)
    bounds,                \* MotionEngine.bounds: axis name -> <<lower, upper>>
    obstacles,             \* MotionEngine.obstacles: sequence of [min, max] boxes
    position,              \* argument of is_position_valid
    p1, p2, step_size,     \* arguments of check_line_of_sight
    world_call,            \* the world-model call made and what it returned
    nodes,                 \* a_star_search: list of graph vertices, index -> point
    adjacency,             \* a_star_search: node index -> list of neighbour indices
    start_idx, end_idx,    \* a_star_search: the two node indices
    astar_call,            \* the a_star_search call made and what it returned
    cache,                 \* GraphNavStrategy._cache: nodes, adjacency, built
    config,                \* the GraphNavConfig handed to generate
    attempts,              \* generate: the loop counter
    gn_pc,                 \* generate: "start", "loop", "returned" or "raised"
    gn_result,             \* generate: what it returned or raised
    gn_attempt,            \* generate: what the last loop iteration did
    math_config,           \* the MathModelingConfig handed to MathStrategy.generate
    math_call,             \* the MathStrategy.generate call made and its outcome
    rw_config,             \* the RandomWalkConfig handed to RandomWalkStrategy.generate
    rw_path,               \* generate: the path array
    rw_step,               \* generate: the loop variable step
    rw_tried,              \* generate: the candidates drawn for each step so far
    rw_pc,                 \* generate: "start", "loop" or "returned"
    rw_result,             \* generate: what it returned
    wp_config,             \* the WaypointConfig handed to WaypointStrategy.generate
    wp_call,               \* the WaypointStrategy.generate call made and its outcome
    instances,             \* the _cache of every GraphNavStrategy instance
    gn_self,               \* the instance the generate call in progress runs on
    saved_segments,        \* MathPlannerGUI: the MathSegment list built so far
    visual_path_history,   \* MathPlannerGUI: the plotted line of every saved segment
    curr_pos,              \* MathPlannerGUI: the head of the path
    curr_heading,
    curr_vel,
    var_start_heading,     \* MathPlannerGUI: the Initial Heading slider
    planner_last,          \* the last planner handler run, and the state before an add
    gp_params,             \* GraphPlannerGUI: num, radius, min_dist of the run
    gp_nodes,              \* GraphPlannerGUI: self.nodes
    gp_attempts,           \* batches sampled so far
    gp_adjacency,          \* GraphPlannerGUI: self.adjacency
    gp_edges,              \* GraphPlannerGUI: self.edges
    gp_i,                  \* the node the connecting loop is at
    gp_pc,                 \* where _generate_preview_graph is
    im_index,              \* run_individual_mode: position in transmitters_config
    im_pc,                 \* where run_individual_mode and the controller are
    im_selection,          \* jammer id -> padding_mode of the launcher's selection
    im_returned            \* jammer id -> the path MissionController.run returned

engineVars == <<jammer_paths, jammer_metadata, padding_preferences, call>>

worldVars == <<bounds, obstacles, position, p1, p2, step_size, world_call>>

astarVars == <<nodes, adjacency, start_idx, end_idx, astar_call>>

graphNavVars == <<cache, config, attempts, gn_pc, gn_result, gn_attempt>>

mathVars == <<math_config, math_call>>

randomWalkVars == <<rw_config, rw_path, rw_step, rw_tried, rw_pc, rw_result>>

waypointVars == <<wp_config, wp_call>>

instanceVars == <<instances, gn_self>>

plannerVars ==
    <<saved_segments, visual_path_history, curr_pos, curr_heading, curr_vel,
      var_start_heading, planner_last>>

roadmapVars ==
    <<gp_params, gp_nodes, gp_attempts, gp_adjacency, gp_edges, gp_i, gp_pc>>

individualVars == <<im_index, im_pc, im_selection, im_returned>>

vars ==
    <<engineVars, worldVars, astarVars,
      graphNavVars, mathVars, randomWalkVars, waypointVars,
      instanceVars, plannerVars, roadmapVars, individualVars>>

----------------------------------------------------------------------------
(* Generic helpers                                                         *)

\* Python dict assignment d[k] = v
Put(d, k, v) == [x \in (DOMAIN d) \cup {k} |-> IF x = k THEN v ELSE d[x]]

\* Python dict.get(k, default)
Get(d, k, default) == IF k \in DOMAIN d THEN d[k] ELSE default

EmptyDict == [x \in {} |-> 0]

SetMax(S) == CHOOSE m \in S : \A x \in S : x <= m

\* numpy.tile(pos, (n, 1)): n rows, each equal to pos
Tile(pos, n) == [i \in 1..n |-> pos]

----------------------------------------------------------------------------
(* MotionEngine: trajectory store                                          *)

\* longest path a strategy hands to the engine in this model
MaxLen == 3

JammerIds == {"Jammer_000", "Jammer_001"}

\* the strategies whose results the engine stores in this model, each with
\* the x coordinate of its starting position
StrategyNames == {"RandomWalk", "MathModeling"}

StartX(s) == IF s = "RandomWalk" THEN 0 ELSE 10

\* a path of n positions, rows of the (N,3) array: one step along x per
\* time step, so that all its positions differ
Ramp(x0, n) == [i \in 1..n |-> <<x0 + i - 1, 0, 0>>]

\* padding_mode is a plain str in the code: the two modes finalize knows
\* and one string it does not know
PaddingModes == {"pad_end", "pad_start", "pad_center"}

EngineInit ==
    /\ jammer_paths = EmptyDict
    /\ jammer_metadata = EmptyDict
    /\ padding_preferences = EmptyDict
    /\ call = [op |-> "__init__"]

\* the store of an engine that no call is made on
EngineIdle ==
    /\ jammer_paths = EmptyDict
    /\ jammer_metadata = EmptyDict
    /\ padding_preferences = EmptyDict
    /\ call = [op |-> "__init__"]

\* get_max_path_length(self)
get_max_path_length(paths) ==
    IF DOMAIN paths = {} THEN 0
    ELSE SetMax({Len(paths[j]) : j \in DOMAIN paths})

\* generate_path with the default argument padding_mode='pad_end'
DefaultPaddingMode == "pad_end"

\* generate_path(self, jammer_id, strategy, config, padding_mode):
\*   config_ok  - isinstance(config, BaseMotionConfig)
\*   outcome    - what strategy.generate does: [raised |-> TRUE] or
\*                [raised |-> FALSE, path |-> .., metadata |-> ..]
\*   mode_arg   - the padding_mode argument, or "omitted"
generate_path_store_mut(paths, metas, prefs, jammer_id, outcome, mode) ==
    \* bug: the metadata of an id that is already stored is kept
    <<Put(paths, jammer_id, outcome.path),
      IF jammer_id \in DOMAIN metas THEN metas
      ELSE Put(metas, jammer_id, outcome.metadata),
      Put(prefs, jammer_id, mode)>>

generate_path_store(paths, metas, prefs, jammer_id, outcome, mode) ==
    <<Put(paths, jammer_id, outcome.path),
      Put(metas, jammer_id, outcome.metadata),
      Put(prefs, jammer_id, mode)>>

generate_path_raise_mut(paths, metas, prefs, jammer_id, mode) ==
    \* bug: the padding preference is stored before the strategy runs
    <<paths, metas, Put(prefs, jammer_id, mode)>>

\* the store when generate_path leaves by an exception: the TypeError and
\* the exception of strategy.generate come before the three assignments
generate_path_raise(paths, metas, prefs, jammer_id, mode) ==
    <<paths, metas, prefs>>

generate_path(jammer_id, config_ok, outcome, mode_arg) ==
    LET mode == IF mode_arg = "omitted" THEN DefaultPaddingMode ELSE mode_arg
        failed == generate_path_raise(jammer_paths, jammer_metadata,
                                      padding_preferences, jammer_id, mode)
    IN
    IF ~config_ok
    THEN /\ jammer_paths' = failed[1]
         /\ jammer_metadata' = failed[2]
         /\ padding_preferences' = failed[3]
         /\ call' = [op |-> "generate_path", id |-> jammer_id,
                     raised |-> "TypeError"]
    ELSE IF outcome.raised
    THEN /\ jammer_paths' = failed[1]
         /\ jammer_metadata' = failed[2]
         /\ padding_preferences' = failed[3]
         /\ call' = [op |-> "generate_path", id |-> jammer_id,
                     raised |-> "RuntimeError"]
    ELSE LET st == generate_path_store(jammer_paths, jammer_metadata,
                                       padding_preferences, jammer_id,
                                       outcome, mode)
         IN /\ jammer_paths' = st[1]
            /\ jammer_metadata' = st[2]
            /\ padding_preferences' = st[3]
            /\ call' = [op |-> "generate_path", id |-> jammer_id,
                        raised |-> "none", path |-> outcome.path,
                        metadata |-> outcome.metadata, mode_arg |-> mode_arg,
                        replaced |-> jammer_id \in DOMAIN jammer_paths]

\* set_padding_mode(self, jammer_id, mode)
set_padding_mode(jammer_id, mode) ==
    /\ padding_preferences' = Put(padding_preferences, jammer_id, mode)
    /\ UNCHANGED <<jammer_paths, jammer_metadata>>
    /\ call' = [op |-> "set_padding_mode", id |-> jammer_id, mode |-> mode]

\* one iteration of the loop of finalize_trajectories, for one stored path
pad_path_mut_first(path, mode, max_steps) ==
    \* bug: pad_end repeats the first position
    LET current_len == Len(path) IN
    IF current_len < max_steps
    THEN LET pad_amount == max_steps - current_len IN
         IF mode = "pad_end"
         THEN path \o Tile(path[1], pad_amount)
         ELSE IF mode = "pad_start"
         THEN Tile(path[1], pad_amount) \o path
         ELSE path
    ELSE path

pad_path_mut_extra(path, mode, max_steps) ==
    \* bug: pad_amount is one too large
    LET current_len == Len(path) IN
    IF current_len < max_steps
    THEN LET pad_amount == max_steps - current_len + 1 IN
         IF mode = "pad_end"
         THEN path \o Tile(path[current_len], pad_amount)
         ELSE IF mode = "pad_start"
         THEN Tile(path[1], pad_amount) \o path
         ELSE path
    ELSE path

pad_path(path, mode, max_steps) ==
    LET current_len == Len(path) IN
    IF current_len < max_steps
    THEN LET pad_amount == max_steps - current_len IN
         IF mode = "pad_end"
         THEN path \o Tile(path[current_len], pad_amount)
         ELSE IF mode = "pad_start"
         THEN Tile(path[1], pad_amount) \o path
         ELSE path
    ELSE path

finalized_paths_mut(paths, prefs) ==
    \* bug: every path is padded in the default mode
    LET max_steps == get_max_path_length(paths) IN
    [j \in DOMAIN paths |-> pad_path(paths[j], "pad_end", max_steps)]

\* the store after finalize_trajectories: max_steps is read once, before
\* the loop, and every path is padded on its own
finalized_paths(paths, prefs) ==
    LET max_steps == get_max_path_length(paths) IN
    [j \in DOMAIN paths |->
        pad_path(paths[j], Get(prefs, j, "pad_end"), max_steps)]

\* finalize_trajectories(self)
finalize_trajectories ==
    LET new == finalized_paths(jammer_paths, padding_preferences)
        repeat == (call.op = "finalize_trajectories")
    IN
    /\ jammer_paths' = new
    /\ UNCHANGED <<jammer_metadata, padding_preferences>>
    /\ call' = [op |-> "finalize_trajectories",
                padded |-> {j \in DOMAIN new : new[j] # jammer_paths[j]},
                repeat |-> repeat,
                before |-> IF repeat THEN call.padded \cup call.before ELSE {}]

\* get_all_positions_at_step(self, step_index); step_index counts from 0
positions_at_step_mut(paths, step_index) ==
    \* bug: a path that is too short answers with its last position
    [j \in DOMAIN paths |->
        IF step_index < Len(paths[j]) THEN paths[j][step_index + 1]
        ELSE paths[j][Len(paths[j])]]

positions_at_step(paths, step_index) ==
    [j \in {i \in DOMAIN paths : step_index < Len(paths[i])} |->
        paths[j][step_index + 1]]

get_all_positions_at_step(step_index) ==
    /\ UNCHANGED <<jammer_paths, jammer_metadata, padding_preferences>>
    /\ call' = [op |-> "get_all_positions_at_step", step_index |-> step_index,
                ret |-> positions_at_step(jammer_paths, step_index)]

\* what strategy.generate(engine, config) hands back when it returns: a
\* path of 1..MaxLen positions and the metadata dictionary of the strategy
StrategyOutcomes ==
    {[raised |-> FALSE, path |-> Ramp(StartX(s), n),
      metadata |-> [strategy |-> s]] : s \in StrategyNames, n \in 1..MaxLen}

EngineNext ==
    \/ \E j \in JammerIds, o \in StrategyOutcomes,
          m \in PaddingModes \cup {"omitted"} :
            generate_path(j, TRUE, o, m)
    \/ \E j \in JammerIds : generate_path(j, FALSE, [raised |-> TRUE], "omitted")
    \/ \E j \in JammerIds : generate_path(j, TRUE, [raised |-> TRUE], "omitted")
    \/ \E j \in JammerIds, m \in PaddingModes : set_padding_mode(j, m)
    \/ finalize_trajectories
    \/ \E k \in 0..MaxLen : get_all_positions_at_step(k)

----------------------------------------------------------------------------
(* World model: bounds, obstacles, is_position_valid, check_line_of_sight  *)
(*                                                                         *)
(* Lengths are integers counting half millimetres, so that distances below *)
(* the 1e-3 m threshold of check_line_of_sight exist in the model.  The    *)
(* inputs are chosen so that every Euclidean distance taken is a whole     *)
(* number of units: the arithmetic of the code is then exact.  A point     *)
(* between grid points is a triple of numerators n over one denominator d. *)

Metre == 2 * 1000

Metres(k) == k * Metre

\* grid points have x, y in 0..GridMax metres
GridMax == 4

\* positions checked have z in 0..ZMax metres
ZMax == 2

\* check_line_of_sight is run on segments of at most MaxSamples samples
MaxSamples == 4

Pt(v) == [n |-> v, d |-> 1]

Axes == <<"x", "y", "z">>

\* lower <= position[i] <= upper for one axis of self.bounds
AxisInRange(b, i, pos) ==
    /\ b[Axes[i]][1] * pos.d <= pos.n[i]
    /\ pos.n[i] <= b[Axes[i]][2] * pos.d

\* position >= obs_min and position <= obs_max on all three axes
inside_box_mut(o, pos) ==
    \* bug: the faces of the box are not part of it
    \A i \in 1..3 : pos.n[i] > o.min[i] * pos.d /\ pos.n[i] < o.max[i] * pos.d

inside_box(o, pos) ==
    \A i \in 1..3 : pos.n[i] >= o.min[i] * pos.d /\ pos.n[i] <= o.max[i] * pos.d

is_position_valid_mut(b, obs, pos) ==
    \* bug: only the interior of the first obstacle is a collision
    IF DOMAIN b # {} /\ "x" \in DOMAIN b /\ ~AxisInRange(b, 1, pos) THEN FALSE
    ELSE IF DOMAIN b # {} /\ "y" \in DOMAIN b /\ ~AxisInRange(b, 2, pos) THEN FALSE
    ELSE IF DOMAIN b # {} /\ "z" \in DOMAIN b /\ ~AxisInRange(b, 3, pos) THEN FALSE
    ELSE IF Len(obs) = 0 THEN TRUE
    ELSE ~inside_box_mut(obs[1], pos)

\* is_position_valid(self, position)
is_position_valid(b, obs, pos) ==
    IF DOMAIN b # {} /\ "x" \in DOMAIN b /\ ~AxisInRange(b, 1, pos) THEN FALSE
    ELSE IF DOMAIN b # {} /\ "y" \in DOMAIN b /\ ~AxisInRange(b, 2, pos) THEN FALSE
    ELSE IF DOMAIN b # {} /\ "z" \in DOMAIN b /\ ~AxisInRange(b, 3, pos) THEN FALSE
    ELSE IF Len(obs) = 0 THEN TRUE
    ELSE LET inside_mask == [k \in 1..Len(obs) |-> inside_box(obs[k], pos)]
         IN IF \E k \in 1..Len(obs) : inside_mask[k] THEN FALSE ELSE TRUE

\* floor of the square root (Newton's iteration from above)
RECURSIVE SqrtIter(_, _)
SqrtIter(n, r) ==
    LET r2 == (r + n \div r) \div 2 IN IF r2 >= r THEN r ELSE SqrtIter(n, r2)

ISqrt(n) == IF n < 2 THEN n ELSE SqrtIter(n, n)

SqNorm(v) == v[1] * v[1] + v[2] * v[2] + v[3] * v[3]

\* np.linalg.norm of a difference of grid points
Norm(v) == ISqrt(SqNorm(v))

Sub(a, b) == <<a[1] - b[1], a[2] - b[2], a[3] - b[3]>>

\* the distance is a whole number of units
ExactDist(a, b) == Norm(Sub(a, b)) * Norm(Sub(a, b)) = SqNorm(Sub(a, b))

\* dist < 1e-3, with dist in half millimetres
Degenerate(dist) == dist * 1000 < Metre

\* test_point = p1 + direction * (i * step_size), direction = (p2 - p1) / dist
test_point(a, b, dist, t) ==
    [n |-> <<a[1] * dist + (b[1] - a[1]) * t,
             a[2] * dist + (b[2] - a[2]) * t,
             a[3] * dist + (b[3] - a[3]) * t>>,
     d |-> dist]

\* steps = int(dist / step_size)
los_steps_mut(dist, step) ==
    \* bug: rounds up
    (dist + step - 1) \div step

los_steps(dist, step) == dist \div step

\* check_line_of_sight(engine, p1, p2, step_size): the loop stops at the
\* first invalid sample, which makes it a conjunction over range(1, steps+1)
check_line_of_sight(b, obs, a, c, step) ==
    LET dist == Norm(Sub(c, a)) IN
    IF Degenerate(dist) THEN TRUE
    ELSE LET steps == los_steps(dist, step) IN
         \A i \in 1..steps :
            is_position_valid(b, obs, test_point(a, c, dist, i * step))

NoBounds == [a \in {} |-> <<0, 0>>]

BoundsChoices ==
    { NoBounds,
      [a \in {"x"} |-> <<0, Metres(3)>>],
      [a \in {"x", "y"} |-> IF a = "x" THEN <<0, Metres(4)>> ELSE <<Metres(1), Metres(3)>>],
      [a \in {"x", "y", "z"} |->
          IF a = "x" THEN <<0, Metres(5)>> ELSE IF a = "y" THEN <<0, Metres(5)>>
          ELSE <<Metres(1), Metres(2)>>] }

\* a box whose low x face is half a millimetre from the plane x = 0
BoxA == [min |-> <<1, 0, 0>>, max |-> <<Metres(1), Metres(1), Metres(2)>>]

\* a box that is flat in z
BoxB == [min |-> <<Metres(2), Metres(2), Metres(1)>>, max |-> <<Metres(3), Metres(4), Metres(1)>>]

ObstacleChoices == { <<>>, <<BoxA>>, <<BoxA, BoxB>> }

GridPoints3D ==
    {<<Metres(x), Metres(y), Metres(z)>> : x \in 0..GridMax, y \in 0..GridMax, z \in 0..ZMax}

\* the grid at the height of one metre, and a point half a millimetre from
\* its origin
NearOrigin == <<1, 0, Metres(1)>>

LosPoints == {<<Metres(x), Metres(y), Metres(1)>> : x \in 0..GridMax, y \in 0..GridMax}
                \cup {NearOrigin}

\* half a millimetre, the default of 2.0 and the 4.0 of the roadmap builder
StepSizes == {1, Metres(2), Metres(4)}

NoCall == [op |-> "none"]

WorldIdle ==
    /\ bounds = NoBounds
    /\ obstacles = <<>>
    /\ position = <<0, 0, 0>>
    /\ p1 = <<0, 0, 0>>
    /\ p2 = <<0, 0, 0>>
    /\ step_size = 1
    /\ world_call = NoCall

\* the engine is constructed with a world and asked about one position
ValidInit ==
    /\ bounds \in BoundsChoices
    /\ obstacles \in ObstacleChoices
    /\ position \in GridPoints3D
    /\ p1 = <<0, 0, 0>>
    /\ p2 = <<0, 0, 0>>
    /\ step_size = 1
    /\ world_call = NoCall

call_is_position_valid ==
    /\ world_call' = [op |-> "is_position_valid",
                      ret |-> is_position_valid(bounds, obstacles, Pt(position))]
    /\ UNCHANGED <<bounds, obstacles, position, p1, p2, step_size>>

\* the engine is constructed with a world and asked about one segment
LosInit ==
    /\ bounds \in BoundsChoices
    /\ obstacles \in ObstacleChoices
    /\ position = <<0, 0, 0>>
    /\ p1 \in LosPoints
    /\ p2 \in LosPoints
    /\ step_size \in StepSizes
    /\ ExactDist(p1, p2)
    /\ Norm(Sub(p2, p1)) \div step_size <= MaxSamples
    /\ world_call = NoCall

call_check_line_of_sight ==
    /\ world_call' = [op |-> "check_line_of_sight",
                      ret |-> check_line_of_sight(bounds, obstacles, p1, p2, step_size)]
    /\ UNCHANGED <<bounds, obstacles, position, p1, p2, step_size>>

----------------------------------------------------------------------------
(* A* search on a pre-built graph (src/core/utils.py)                      *)
(*                                                                         *)
(* Node indices count from 0 as in the code.  The graph vertices are taken *)
(* from the corners and the centre of a 6 m x 8 m rectangle, whose         *)
(* pairwise distances (5, 6, 8, 10 m) are whole numbers: the float sums    *)
(* and comparisons of the code are exact on them.                          *)

\* number of graph vertices
NumNodes == 4

\* roadmap nodes lie at the fixed height of 1.5 m
NodeZ == (3 * Metre) \div 2

NodePoints ==
    <<  <<0, 0, NodeZ>>, <<Metres(6), 0, NodeZ>>, <<Metres(6), Metres(8), NodeZ>>,
        <<0, Metres(8), NodeZ>>, <<Metres(3), Metres(4), NodeZ>>  >>

NodeList(n) == [i \in 0..(n - 1) |-> NodePoints[i + 1]]

\* a second layout: four points of one line and one on either side of it,
\* at distances of 3, 4, 5, 6 and 8 m; two routes with the same number of
\* edges can differ in length here
KitePoints ==
    <<  <<Metres(6), 0, NodeZ>>, <<Metres(3), Metres(4), NodeZ>>,
        <<0, 0, NodeZ>>, <<Metres(3), 0, NodeZ>>, <<Metres(3), -Metres(4), NodeZ>>  >>

KiteList(n) == [i \in 0..(n - 1) |-> KitePoints[i + 1]]

Reverse(q) == [i \in 1..Len(q) |-> q[Len(q) + 1 - i]]

HeapMin_mut(open_set) ==
    \* bug: the entry of the smallest node index is popped, whatever its f_score
    CHOOSE e \in open_set :
        \A o \in open_set : e[2] < o[2] \/ (e[2] = o[2] /\ e[1] <= o[1])

\* heapq.heappop(open_set): the smallest (f_score, node_index) tuple
HeapMin(open_set) ==
    CHOOSE e \in open_set :
        \A o \in open_set : e[1] < o[1] \/ (e[1] = o[1] /\ e[2] <= o[2])

\* _reconstruct_path(nodes, came_from, current)
RECURSIVE path_indices_from(_, _, _)
path_indices_from(came_from, current, path_indices) ==
    IF current \in DOMAIN came_from
    THEN path_indices_from(came_from, came_from[current],
                           Append(path_indices, came_from[current]))
    ELSE path_indices

reconstruct_path_mut(ns, came_from, current) ==
    \* bug: path_indices.reverse() is missing
    LET path_indices == path_indices_from(came_from, current, <<current>>)
    IN [i \in 1..Len(path_indices) |-> ns[path_indices[i]]]

reconstruct_path(ns, came_from, current) ==
    LET path_indices == Reverse(path_indices_from(came_from, current, <<current>>))
    IN [i \in 1..Len(path_indices) |-> ns[path_indices[i]]]

\* the for loop over adjacency[current], from list position i on
RECURSIVE relax_neighbors(_, _, _, _, _, _)
relax_neighbors(st, ns, nbrs, i, current, goal) ==
    IF i > Len(nbrs) THEN st
    ELSE LET neighbor == nbrs[i]
             dist == Norm(Sub(ns[current], ns[neighbor]))
             tentative_g == st.g_score[current] + dist
         IN IF neighbor \notin DOMAIN st.g_score \/ tentative_g < st.g_score[neighbor]
            THEN LET f == tentative_g + Norm(Sub(ns[neighbor], ns[goal]))
                 IN relax_neighbors(
                        [came_from |-> Put(st.came_from, neighbor, current),
                         g_score |-> Put(st.g_score, neighbor, tentative_g),
                         f_score |-> Put(st.f_score, neighbor, f),
                         open_set |-> st.open_set \cup {<<f, neighbor>>},
                         visited |-> st.visited],
                        ns, nbrs, i + 1, current, goal)
            ELSE relax_neighbors(st, ns, nbrs, i + 1, current, goal)

\* the while loop of a_star_search
RECURSIVE search_loop(_, _, _, _)
search_loop(st, ns, adj, goal) ==
    IF st.open_set = {} THEN <<>>
    ELSE LET top == HeapMin(st.open_set)
             current == top[2]
             popped == [st EXCEPT !.open_set = @ \ {top}]
         IN IF current = goal
            THEN reconstruct_path(ns, popped.came_from, current)
            ELSE IF current \in popped.visited
            THEN search_loop(popped, ns, adj, goal)
            ELSE search_loop(
                    relax_neighbors([popped EXCEPT !.visited = @ \cup {current}],
                                    ns, Get(adj, current, <<>>), 1, current, goal),
                    ns, adj, goal)

\* a_star_search(nodes, adjacency, start_idx, end_idx); adjacency is a
\* defaultdict(list): a node without entry has no neighbours
a_star_search(ns, adj, start, goal) ==
    search_loop([open_set |-> {<<0, start>>},
                 came_from |-> EmptyDict,
                 g_score |-> Put(EmptyDict, start, 0),
                 f_score |-> Put(EmptyDict, start, Norm(Sub(ns[start], ns[goal]))),
                 visited |-> {}],
                ns, adj, goal)

\* the undirected edges a graph over n nodes can have
NodePairs(n) == {e \in SUBSET (0..(n - 1)) : Cardinality(e) = 2}

RECURSIVE SortedSeq(_, _)
SortedSeq(S, ascending) ==
    IF S = {} THEN <<>>
    ELSE LET x == CHOOSE y \in S : \A z \in S : IF ascending THEN y <= z ELSE y >= z
         IN <<x>> \o SortedSeq(S \ {x}, ascending)

\* the adjacency lists of an edge set, with entries only for nodes that
\* have an edge, as the roadmap builder leaves them
AdjacencyOf(edges, ascending) ==
    [i \in UNION edges |->
        SortedSeq({j \in UNION edges : {i, j} \in edges}, ascending)]

\* the undirected edges of an adjacency mapping
EdgeSet(adj) == UNION {{{i, adj[i][k]} : k \in DOMAIN adj[i]} : i \in DOMAIN adj}

AStarIdle ==
    /\ nodes = <<>>
    /\ adjacency = EmptyDict
    /\ start_idx = 0
    /\ end_idx = 0
    /\ astar_call = NoCall

AStarInit ==
    /\ nodes \in {NodeList(NumNodes), KiteList(NumNodes)}
    /\ \E edges \in SUBSET NodePairs(NumNodes), ascending \in BOOLEAN :
            adjacency = AdjacencyOf(edges, ascending)
    /\ start_idx \in DOMAIN nodes
    /\ end_idx \in DOMAIN nodes
    /\ astar_call = NoCall

call_a_star_search ==
    /\ astar_call' = [op |-> "a_star_search",
                      ret |-> a_star_search(nodes, adjacency, start_idx, end_idx)]
    /\ UNCHANGED <<nodes, adjacency, start_idx, end_idx>>

----------------------------------------------------------------------------
(* Path smoothing and constant-speed resampling                            *)

\* the samples a fitted spline is evaluated to between its end points lie
\* at these points in the model
SplineSamplePoints == {<<60, 80, 60>>, <<0, 160, 60>>}

RECURSIVE SumSeq(_)
SumSeq(q) == IF Len(q) = 0 THEN 0 ELSE q[1] + SumSeq(Tail(q))

\* np.linalg.norm(np.diff(points, axis=0), axis=1)
SegmentLengths(points) ==
    [i \in 1..(Len(points) - 1) |-> Norm(Sub(points[i + 1], points[i]))]

RECURSIVE CumSum(_, _)
CumSum(q, acc) ==
    IF Len(q) = 0 THEN <<>> ELSE <<acc + q[1]>> \o CumSum(Tail(q), acc + q[1])

\* np.insert(np.cumsum(dists), 0, 0.0)
CumulativeDist(points) == <<0>> \o CumSum(SegmentLengths(points), 0)

PathLength(points) == SumSeq(SegmentLengths(points))

Max(a, b) == IF a >= b THEN a ELSE b

\* num_samples = max(int(total_len * resolution_per_meter), len(points) * 2)
NumSamples(points, resolution_per_meter) ==
    Max((PathLength(points) * resolution_per_meter) \div Metre, Len(points) * 2)

\* what calculate_smooth_path(points, resolution_per_meter) can return:
\* the points themselves when there are fewer than 3 of them or when
\* CubicSpline raises; otherwise num_samples samples of the three splines
\* over linspace(0, total_len), the first and the last of which are the
\* first and the last control point.  scipy's spline is not evaluated: the
\* samples in between are any points of SplineSamplePoints.
calculate_smooth_path(points, resolution_per_meter) ==
    IF Len(points) < 3 THEN {points}
    ELSE LET num_samples == NumSamples(points, resolution_per_meter)
         IN {points} \cup
            {[i \in 1..num_samples |->
                IF i = 1 THEN points[1]
                ELSE IF i = num_samples THEN points[Len(points)]
                ELSE inner[i - 1]] :
             inner \in [1..(num_samples - 2) -> SplineSamplePoints]}

RECURSIVE Gcd(_, _)
Gcd(a, b) == IF b = 0 THEN a ELSE Gcd(b, a % b)

Abs(a) == IF a < 0 THEN -a ELSE a

\* a point n/d in lowest terms
Reduced(n, d) ==
    LET g == Gcd(Gcd(Gcd(Abs(n[1]), Abs(n[2])), Abs(n[3])), d)
    IN [n |-> <<n[1] \div g, n[2] \div g, n[3] \div g>>, d |-> d \div g]

\* np.interp(x, xp, fp) on the three coordinate columns at once
interp(x, xp, fp) ==
    LET last == Len(xp) IN
    IF x >= xp[last] THEN Pt(fp[last])
    ELSE IF x < xp[1] THEN Pt(fp[1])
    ELSE LET j == SetMax({k \in 1..last : xp[k] <= x})
         IN IF xp[j] = x THEN Pt(fp[j])
            ELSE LET run == xp[j + 1] - xp[j]
                     dx == x - xp[j]
                 IN Reduced(<<fp[j][1] * run + (fp[j + 1][1] - fp[j][1]) * dx,
                              fp[j][2] * run + (fp[j + 1][2] - fp[j][2]) * dx,
                              fp[j][3] * run + (fp[j + 1][3] - fp[j][3]) * dx>>,
                            run)

target_distances_mut(total_length, velocity, time_step) ==
    \* bug: total_duration is not appended to the time grid
    [k \in 1..((total_length + velocity * time_step - 1)
                    \div (velocity * time_step)) |->
        (k - 1) * velocity * time_step]

\* target_distances = t_eval * velocity, where t_eval is
\* np.arange(0, total_duration, time_step) with total_duration appended:
\* velocity * time_step is a whole number of units in the model
TargetDistances(total_length, velocity, time_step) ==
    LET stride == velocity * time_step
        count == (total_length + stride - 1) \div stride
    IN [k \in 1..(count + 1) |->
            IF k <= count THEN (k - 1) * stride ELSE total_length]

\* final_trajectory: the path, whose cumulative distances are given,
\* interpolated at the target distances
resample(path, cumulative_dist, velocity, time_step) ==
    LET target_distances ==
            TargetDistances(cumulative_dist[Len(path)], velocity, time_step)
    IN [k \in 1..Len(target_distances) |->
            interp(target_distances[k], cumulative_dist, path)]

----------------------------------------------------------------------------
(* GraphNavStrategy.generate (src/core/strategies.py)                      *)
(*                                                                         *)
(* The roadmap of the model is a 6 cm x 8 cm rectangle: with the fixed     *)
(* resolution of 10 samples per metre the smoothed curve then has          *)
(* 2 * len(points) samples.                                                *)

max_attempts == 100

None == [none |-> TRUE]

GnBounds == [a \in {"x", "y"} |-> IF a = "x" THEN <<0, 120>> ELSE <<0, 160>>]

\* a box around the centre of the rectangle
CentreBox == [min |-> <<50, 70, 0>>, max |-> <<70, 90, 100>>]

GnNodes == [i \in 0..3 |->
    <<  <<0, 0, 60>>, <<120, 0, 60>>, <<120, 160, 60>>, <<0, 160, 60>>  >>[i + 1]]

\* the roadmaps a query runs on: a chain that leaves node 3 out, and a ring
GnEdgeChoices ==
    { {{0, 1}, {1, 2}},
      {{0, 1}, {1, 2}, {2, 3}, {0, 3}} }

\* the graph of a config: none (None is modelled by the empty list, which
\* has the same truth value), a single node, or four nodes with edges
GnGraphChoices ==
    { [precomputed_nodes |-> <<>>, precomputed_adjacency |-> <<>>],
      [precomputed_nodes |-> [i \in {0} |-> GnNodes[0]],
       precomputed_adjacency |-> [i \in {0} |-> <<>>]] }
    \cup
    { [precomputed_nodes |-> GnNodes,
       precomputed_adjacency |-> AdjacencyOf(e, TRUE)] : e \in GnEdgeChoices }

GnConfigs ==
    { [precomputed_nodes |-> g.precomputed_nodes,
       precomputed_adjacency |-> g.precomputed_adjacency,
       min_path_distance |-> d,
       enable_smoothing |-> sm,
       velocity |-> 100,
       time_step |-> 1] :
      g \in GnGraphChoices, d \in {0, 250}, sm \in BOOLEAN }

GraphNavIdle ==
    /\ cache = [nodes |-> <<>>, adjacency |-> EmptyDict, built |-> FALSE]
    /\ config = None
    /\ attempts = 0
    /\ gn_pc = "idle"
    /\ gn_result = None
    /\ gn_attempt = None

\* a fresh strategy instance, a world whose roadmap nodes are valid and
\* whose roadmap edges have line of sight, and a config
GraphNavInit ==
    /\ cache = [nodes |-> <<>>, adjacency |-> EmptyDict, built |-> FALSE]
    /\ config \in GnConfigs
    /\ attempts = 0
    /\ gn_pc = "start"
    /\ gn_result = None
    /\ gn_attempt = None
    /\ bounds = GnBounds
    /\ obstacles \in {<<>>, <<CentreBox>>}
    /\ position = <<0, 0, 0>>
    /\ p1 = <<0, 0, 0>>
    /\ p2 = <<0, 0, 0>>
    /\ step_size = 1
    /\ world_call = NoCall
    /\ DOMAIN config.precomputed_nodes # {} =>
        /\ \A i \in DOMAIN config.precomputed_nodes :
            is_position_valid(bounds, obstacles, Pt(config.precomputed_nodes[i]))
        /\ \A e \in EdgeSet(config.precomputed_adjacency) :
            \A i \in e, j \in e :
                check_line_of_sight(bounds, obstacles, config.precomputed_nodes[i],
                                    config.precomputed_nodes[j], Metres(4))

\* Python truth value of a list or dict
Truthy(x) == DOMAIN x # {}

NotBuiltError ==
    [raised |->
      "GraphNav Error: Graph not built. Please run the GUI to build the graph first."]

TooSmallError == [raised |-> "Graph is too small (less than 2 nodes)."]

graph_too_small_mut(num_nodes) ==
    \* bug: a single node passes the size check
    num_nodes < 1

\* if num_nodes < 2
graph_too_small(num_nodes) == num_nodes < 2

\* generate, up to the loop: load the graph into the cache, check its size
gn_load_graph ==
    /\ gn_pc = "start"
    /\ IF ~cache.built /\ ~(Truthy(config.precomputed_nodes)
                            /\ Truthy(config.precomputed_adjacency))
       THEN /\ gn_pc' = "raised"
            /\ gn_result' = NotBuiltError
            /\ UNCHANGED cache
       ELSE LET loaded == IF cache.built THEN cache
                          ELSE [nodes |-> config.precomputed_nodes,
                                adjacency |-> config.precomputed_adjacency,
                                built |-> TRUE]
                num_nodes == Cardinality(DOMAIN loaded.nodes)
            IN /\ cache' = loaded
               /\ IF graph_too_small(num_nodes)
                  THEN /\ gn_pc' = "raised"
                       /\ gn_result' = TooSmallError
                  ELSE /\ gn_pc' = "loop"
                       /\ UNCHANGED gn_result
    /\ attempts' = 0
    /\ UNCHANGED <<config, gn_attempt>>

\* is_safe: every point of the smoothed path is valid
is_safe(b, obs, smoothed) ==
    \A i \in 1..Len(smoothed) : is_position_valid(b, obs, Pt(smoothed[i]))

\* what one loop iteration decides for the picked pair and the smoothing
\* result: the reason it continues, or the path it accepts
attempt_outcome_mut(b, obs, cfg, raw_waypoints, start, goal, smoothed) ==
    \* bug: an unsafe smoothed path falls back to the raw waypoints
    IF start = goal THEN [reject |-> "same_node"]
    ELSE IF Len(raw_waypoints) = 0 THEN [reject |-> "no_path"]
    ELSE IF PathLength(raw_waypoints) < cfg.min_path_distance
    THEN [reject |-> "too_short"]
    ELSE IF cfg.enable_smoothing
    THEN IF is_safe(b, obs, smoothed)
         THEN [reject |-> "none", valid_path |-> smoothed]
         ELSE [reject |-> "none", valid_path |-> raw_waypoints]
    ELSE [reject |-> "none", valid_path |-> raw_waypoints]

attempt_outcome_mut_short(b, obs, cfg, raw_waypoints, start, goal, smoothed) ==
    \* bug: the minimum-distance filter is missing
    IF start = goal THEN [reject |-> "same_node"]
    ELSE IF Len(raw_waypoints) = 0 THEN [reject |-> "no_path"]
    ELSE IF cfg.enable_smoothing
    THEN IF is_safe(b, obs, smoothed)
         THEN [reject |-> "none", valid_path |-> smoothed]
         ELSE [reject |-> "unsafe"]
    ELSE [reject |-> "none", valid_path |-> raw_waypoints]

attempt_outcome(b, obs, cfg, raw_waypoints, start, goal, smoothed) ==
    IF start = goal THEN [reject |-> "same_node"]
    ELSE IF Len(raw_waypoints) = 0 THEN [reject |-> "no_path"]
    ELSE IF PathLength(raw_waypoints) < cfg.min_path_distance
    THEN [reject |-> "too_short"]
    ELSE IF cfg.enable_smoothing
    THEN IF is_safe(b, obs, smoothed)
         THEN [reject |-> "none", valid_path |-> smoothed]
         ELSE [reject |-> "unsafe"]
    ELSE [reject |-> "none", valid_path |-> raw_waypoints]

\* the loop test: while attempts < max_attempts
loop_continues_mut(n) ==
    \* bug: the loop has no bound
    TRUE

loop_continues(n) == n < max_attempts

\* one iteration of the search loop; an accepted path leaves the loop and
\* is resampled and returned with its metadata
gn_search_attempt ==
    /\ gn_pc = "loop"
    /\ loop_continues(attempts)
    /\ attempts' = attempts + 1
    /\ \E start_node_idx \in DOMAIN cache.nodes, end_node_idx \in DOMAIN cache.nodes :
       \E raw_waypoints \in
            {IF start_node_idx = end_node_idx THEN <<>>
             ELSE a_star_search(cache.nodes, cache.adjacency,
                                start_node_idx, end_node_idx)} :
       \E smoothed \in
            (IF Len(raw_waypoints) > 0 /\ config.enable_smoothing
             THEN calculate_smooth_path(raw_waypoints, 10)
             ELSE {<<>>}) :
       \E out \in {attempt_outcome(bounds, obstacles, config, raw_waypoints,
                                   start_node_idx, end_node_idx, smoothed)} :
            /\ gn_attempt' =
                 IF out.reject # "none" THEN [reject |-> out.reject]
                 ELSE [reject |-> "none",
                       start |-> start_node_idx, goal |-> end_node_idx,
                       raw_waypoints |-> raw_waypoints, smoothed |-> smoothed]
            /\ IF out.reject # "none"
               THEN UNCHANGED <<gn_pc, gn_result>>
               ELSE \E cumulative_dist \in {CumulativeDist(out.valid_path)} :
                    \E total_length \in {cumulative_dist[Len(out.valid_path)]} :
                    /\ gn_pc' = "returned"
                    /\ gn_result' =
                         [valid_path |-> out.valid_path,
                          final_trajectory |->
                              resample(out.valid_path, cumulative_dist,
                                       config.velocity, config.time_step),
                          metadata |->
                              [strategy |-> "GraphNav",
                               graph_nodes |-> Cardinality(DOMAIN cache.nodes),
                               attempts |-> attempts',
                               total_distance |-> total_length,
                               duration |-> <<total_length, config.velocity>>,
                               velocity |-> config.velocity]]
    /\ UNCHANGED <<cache, config>>

\* the loop ends without a valid path
gn_attempts_exhausted ==
    /\ gn_pc = "loop"
    /\ ~loop_continues(attempts)
    /\ gn_pc' = "raised"
    /\ gn_result' = [raised |->
          "GraphNav Error: Failed to find a valid path after maximum attempts."]
    /\ UNCHANGED <<cache, config, attempts, gn_attempt>>

GraphNavNext ==
    \/ gn_load_graph
    \/ gn_search_attempt
    \/ gn_attempts_exhausted

----------------------------------------------------------------------------
(* MathStrategy (src/core/strategies.py)                                   *)
(*                                                                         *)
(* Times are whole seconds and lengths are metres.  A heading theta is     *)
(* held as its exact cosine c/d and sine s/d; a velocity is the number     *)
(* rat + pi_half * pi/2, so that a turn at 90 degrees per second has a     *)
(* rational radius; a turn rate is a whole number of millidegrees per      *)
(* second.  The inputs are chosen so that every position is rational: the  *)
(* tolerance 1e-9 of the timeline is then below the resolution of time.    *)

East == [c |-> 1, s |-> 0, d |-> 1]

NorthEast == [c |-> 3, s |-> 4, d |-> 5]

Vel(a) == [rat |-> a, pi_half |-> 0]

VelPiHalf(k) == [rat |-> 0, pi_half |-> k]

VelPlus(v, a) == [rat |-> v.rat + a, pi_half |-> v.pi_half]

\* theta + pi/2
QuarterTurn(h) == [c |-> -h.s, s |-> h.c, d |-> h.d]

\* theta + q * pi/2
RECURSIVE Rotate(_, _)
Rotate(h, q) == IF q % 4 = 0 THEN h ELSE Rotate(QuarterTurn(h), (q % 4) - 1)

MilliDegPerQuarterTurn == 90 * 1000

\* abs(np.deg2rad(rate)) < 1e-4 for a rate in whole millidegrees per second:
\* |rate| * pi < 18, and 355/113 is close enough to pi to decide it
NearZeroRate(rate) == Abs(rate) * 355 < 18 * 113

\* omega * t in quarter turns
TurnedQuarters(rate, t) == (rate * t) \div MilliDegPerQuarterTurn

\* a point n/d with any sign of d, in lowest terms
RatPoint(n, d) ==
    IF d < 0 THEN Reduced(<<-n[1], -n[2], -n[3]>>, -d) ELSE Reduced(n, d)

\* p + (num/den) * (hx/hd, hy/hd, 0)
Displace(p, hx, hy, hd, num, den) ==
    RatPoint(<<p.n[1] * den * hd + num * hx * p.d,
               p.n[2] * den * hd + num * hy * p.d,
               p.n[3] * den * hd>>,
             p.d * den * hd)

\* seg.params.get(key, 0.0)
ParamGet(params, key, default) ==
    IF key \in DOMAIN params THEN params[key] ELSE default

calculate_position_at_t_mut(seg, t) ==
    \* bug: a segment is evaluated from the origin instead of its start_pos
    Displace(Pt(<<0, 0, 0>>), seg.start_heading.c, seg.start_heading.s,
             seg.start_heading.d,
             ParamGet(seg.params, "velocity", Vel(0)).rat * t, 1)

\* MathStrategy._calculate_position_at_t
calculate_position_at_t(seg, t) ==
    LET theta == seg.start_heading
        p0 == seg.start_pos
    IN IF seg.mode = "Const Vel"
       THEN LET v == ParamGet(seg.params, "velocity", Vel(0))
            IN Displace(p0, theta.c, theta.s, theta.d, v.rat * t, 1)
       ELSE IF seg.mode = "Const Accel"
       THEN LET v0 == seg.start_vel
                a == ParamGet(seg.params, "accel", 0)
            IN Displace(p0, theta.c, theta.s, theta.d,
                        2 * v0.rat * t + a * t * t, 2)
       ELSE IF seg.mode = "Turn"
       THEN LET v == ParamGet(seg.params, "velocity", Vel(0))
                rate == ParamGet(seg.params, "turn_rate", 0)
            IN IF NearZeroRate(rate)
               THEN Displace(p0, theta.c, theta.s, theta.d, v.rat * t, 1)
               ELSE LET turned == Rotate(theta, TurnedQuarters(rate, t))
                    IN \* r = v / omega = pi_half * 90000 / rate
                       Displace(p0, turned.s - theta.s, -(turned.c - theta.c),
                                theta.d, v.pi_half * MilliDegPerQuarterTurn, rate)
       ELSE p0

\* np.arange(0, total_duration, time_step)
ARange(total_duration, time_step) ==
    [k \in 1..((total_duration + time_step - 1) \div time_step) |->
        (k - 1) * time_step]

t_global_mut(total_duration, time_step) ==
    \* bug: the final time is not appended
    ARange(total_duration, time_step)

\* t_global: the grid, with the final time appended unless the grid ends
\* within 1e-9 of it
t_global(total_duration, time_step) ==
    LET grid == ARange(total_duration, time_step)
    IN IF Len(grid) = 0 \/ grid[Len(grid)] < total_duration
       THEN Append(grid, total_duration)
       ELSE grid

\* the while loop that advances the segment cursor for grid time t;
\* segment indices count from 0 as in the code
RECURSIVE advance_cursor(_, _, _, _)
advance_cursor(segments, current_seg_idx, current_seg_start_time, t) ==
    IF /\ current_seg_idx < Len(segments) - 1
       /\ t >= current_seg_start_time + segments[current_seg_idx + 1].duration
    THEN advance_cursor(segments, current_seg_idx + 1,
                        current_seg_start_time
                            + segments[current_seg_idx + 1].duration, t)
    ELSE [idx |-> current_seg_idx, start_time |-> current_seg_start_time]

\* t_local clamped to [0, seg.duration]
clamp_local(t_local, duration) ==
    IF t_local > duration THEN duration
    ELSE IF t_local < 0 THEN 0 ELSE t_local

\* the sampling loop from grid position i on: for every grid time the
\* cursor, the local time and the position
RECURSIVE sample_timeline(_, _, _, _, _)
sample_timeline(segments, grid, i, current_seg_idx, current_seg_start_time) ==
    IF i > Len(grid) THEN <<>>
    ELSE LET cur == advance_cursor(segments, current_seg_idx,
                                   current_seg_start_time, grid[i])
             seg == segments[cur.idx + 1]
             t_local == clamp_local(grid[i] - cur.start_time, seg.duration)
         IN <<[t |-> grid[i], seg_idx |-> cur.idx,
               seg_start_time |-> cur.start_time, t_local |-> t_local,
               pos |-> calculate_position_at_t(seg, t_local)]>>
            \o sample_timeline(segments, grid, i + 1, cur.idx, cur.start_time)

\* the squared length of q - p, as a fraction
SqDist(p, q) ==
    [n |-> SqNorm(<<q.n[1] * p.d - p.n[1] * q.d,
                    q.n[2] * p.d - p.n[2] * q.d,
                    q.n[3] * p.d - p.n[3] * q.d>>),
     d |-> p.d * p.d * q.d * q.d]

\* MathStrategy.generate: the error, or the path with its metadata and the
\* samples it was built from.  total_distance is the sum of the square
\* roots of the listed squared step lengths.
math_generate(cfg) ==
    IF Len(cfg.segments) = 0
    THEN [raised |-> "MathStrategy Error: No segments provided in configuration."]
    ELSE LET total_duration ==
                 SumSeq([i \in 1..Len(cfg.segments) |-> cfg.segments[i].duration])
             samples == sample_timeline(cfg.segments,
                                        t_global(total_duration, cfg.time_step),
                                        1, 0, 0)
             path_array == [i \in 1..Len(samples) |-> samples[i].pos]
         IN [raised |-> "none",
             samples |-> samples,
             path |-> path_array,
             metadata |->
                [strategy |-> "MathModeling",
                 total_distance |->
                    [sum_of_sqrt |-> [i \in 1..(Len(path_array) - 1) |->
                        SqDist(path_array[i], path_array[i + 1])]],
                 total_duration |-> total_duration,
                 num_segments |-> Len(cfg.segments)]]

\* the state a segment hands on at t = duration: position, heading, velocity
exit_state(seg) ==
    LET rate == ParamGet(seg.params, "turn_rate", 0)
    IN [pos |-> calculate_position_at_t(seg, seg.duration),
        heading |-> IF seg.mode = "Turn" /\ ~NearZeroRate(rate)
                    THEN Rotate(seg.start_heading, TurnedQuarters(rate, seg.duration))
                    ELSE seg.start_heading,
        vel |-> IF seg.mode = "Const Accel"
                THEN VelPlus(seg.start_vel,
                             ParamGet(seg.params, "accel", 0) * seg.duration)
                ELSE ParamGet(seg.params, "velocity", Vel(0))]

\* what a segment does: mode and parameters
MotionChoices ==
    { [mode |-> "Const Vel", params |-> [velocity |-> Vel(5)]],
      [mode |-> "Const Accel", params |-> [accel |-> 2]],
      [mode |-> "Turn", params |-> [velocity |-> Vel(5), turn_rate |-> 0]] }

Durations == {0, 1, 2, 4}

TimeSteps == {1, 3}

MathStart == <<-20, 0, 0>>

\* a segment of the given motion that starts in the given state
SegmentFrom(state, motion, duration) ==
    [mode |-> motion.mode, duration |-> duration, start_pos |-> state.pos,
     start_heading |-> state.heading, start_vel |-> state.vel,
     params |-> motion.params]

\* the segment lists of up to three segments in which every segment starts
\* where the one before it ends
ChainsOne ==
    { <<SegmentFrom([pos |-> Pt(MathStart), heading |-> h, vel |-> Vel(0)], m, d)>> :
        h \in {East, NorthEast}, m \in MotionChoices, d \in Durations }

ChainsExtended(chains) ==
    { Append(c, SegmentFrom(exit_state(c[Len(c)]), m, d)) :
        c \in chains, m \in MotionChoices, d \in Durations }

SegmentLists ==
    {<<>>} \cup ChainsOne \cup ChainsExtended(ChainsOne)
           \cup ChainsExtended(ChainsExtended(ChainsOne))

MathIdle ==
    /\ math_config = None
    /\ math_call = NoCall

MathInit ==
    /\ math_config \in [segments : SegmentLists, time_step : TimeSteps]
    /\ math_call = NoCall

call_math_generate ==
    /\ math_call = NoCall
    /\ math_config # None
    /\ math_call' = [op |-> "generate", ret |-> math_generate(math_config)]
    /\ UNCHANGED math_config

----------------------------------------------------------------------------
(* RandomWalkStrategy.generate (src/core/strategies.py)                    *)
(*                                                                         *)
(* Lengths are metres.  The normalised random direction is one of a few    *)
(* unit vectors with rational coordinates, so that every candidate is a    *)
(* rational point at distance step_size from its predecessor.              *)

MaxSteps == 3

MaxRetries == 2

\* direction / norm: unit vectors (x/d, y/d)
Directions ==
    { [x |-> 1, y |-> 0, d |-> 1], [x |-> -1, y |-> 0, d |-> 1],
      [x |-> 0, y |-> 1, d |-> 1], [x |-> 3, y |-> 4, d |-> 5] }

candidate_position_mut(previous_position, direction, size, z_height) ==
    \* bug: the step is not scaled by step_size
    Displace(previous_position, direction.x, direction.y, direction.d, 1, 1)

\* candidate_position = previous_position + offset, with Z set to z_height
candidate_position(previous_position, direction, size, z_height) ==
    LET moved == Displace(previous_position, direction.x, direction.y,
                          direction.d, size, 1)
    IN RatPoint(<<moved.n[1], moved.n[2], z_height * moved.d>>, moved.d)

first_valid_mut(b, obs, candidates) ==
    \* bug: the first candidate is taken without asking is_position_valid
    IF Len(candidates) > 0 THEN 1 ELSE 0

\* the retry loop: the number of the first candidate that passes
\* is_position_valid, 0 if none does
first_valid(b, obs, candidates) ==
    LET passing == {k \in 1..Len(candidates) :
                        is_position_valid(b, obs, candidates[k])}
    IN IF passing = {} THEN 0
       ELSE CHOOSE k \in passing : \A other \in passing : k <= other

RwBounds == [a \in {"x", "y"} |-> <<0, 1>>]

\* a box that holds the point (1, 0) at every height of the model
RwBox == [min |-> <<1, -1, 0>>, max |-> <<2, 0, 9>>]

RwConfigs ==
    [num_steps : 1..MaxSteps, step_size : {1, 5}, max_retries : 0..MaxRetries,
     starting_position : {<<0, 0, 1>>, <<-1, 0, 1>>}, time_step : {1}]

RandomWalkIdle ==
    /\ rw_config = None
    /\ rw_path = <<>>
    /\ rw_step = 0
    /\ rw_tried = <<>>
    /\ rw_pc = "idle"
    /\ rw_result = None

RandomWalkInit ==
    /\ rw_config \in RwConfigs
    /\ rw_path = <<>>
    /\ rw_step = 0
    /\ rw_tried = <<>>
    /\ rw_pc = "start"
    /\ rw_result = None
    /\ bounds = RwBounds
    /\ obstacles \in {<<>>, <<RwBox>>}
    /\ position = <<0, 0, 0>>
    /\ p1 = <<0, 0, 0>>
    /\ p2 = <<0, 0, 0>>
    /\ step_size = 1
    /\ world_call = NoCall

\* generate, up to the loop: the zero array with the starting position in
\* its first row
rw_setup ==
    /\ rw_pc = "start"
    /\ rw_path' = [i \in 1..rw_config.num_steps |->
                      IF i = 1 THEN Pt(rw_config.starting_position)
                      ELSE Pt(<<0, 0, 0>>)]
    /\ rw_tried' = <<<<>>>>
    /\ rw_step' = 1
    /\ rw_pc' = "loop"
    /\ UNCHANGED <<rw_config, rw_result>>

\* one iteration of the step loop: draw directions until a candidate is
\* valid or max_retries are used up; when stuck, stay in place.
\* rw_path[rw_step + 1] is path[step] of the code, whose rows count from 0.
rw_walk_step ==
    /\ rw_pc = "loop"
    /\ rw_step < rw_config.num_steps
    /\ \E drawn \in [1..rw_config.max_retries -> Directions] :
        \E candidates \in
            {[k \in 1..rw_config.max_retries |->
                candidate_position(rw_path[rw_step], drawn[k], rw_config.step_size,
                                   rw_config.starting_position[3])]} :
        \E found \in {first_valid(bounds, obstacles, candidates)} :
            /\ rw_path' = [rw_path EXCEPT ![rw_step + 1] =
                              IF found = 0 THEN rw_path[rw_step]
                              ELSE candidates[found]]
            /\ rw_tried' = Append(rw_tried,
                              IF found = 0 THEN candidates
                              ELSE SubSeq(candidates, 1, found))
    /\ rw_step' = rw_step + 1
    /\ UNCHANGED <<rw_config, rw_pc, rw_result>>

\* after the loop: metadata and return.  total_distance is the sum of the
\* square roots of the listed squared step lengths.
rw_return ==
    /\ rw_pc = "loop"
    /\ rw_step >= rw_config.num_steps
    /\ rw_pc' = "returned"
    /\ rw_result' =
        [path |-> rw_path,
         metadata |->
            [strategy |-> "RandomWalk",
             total_distance |->
                [sum_of_sqrt |-> [i \in 1..(Len(rw_path) - 1) |->
                    SqDist(rw_path[i], rw_path[i + 1])]],
             avg_velocity |-> <<rw_config.step_size, rw_config.time_step>>,
             duration |-> rw_config.num_steps * rw_config.time_step]]
    /\ UNCHANGED <<rw_config, rw_path, rw_step, rw_tried>>

RandomWalkNext ==
    \/ rw_setup
    \/ rw_walk_step
    \/ rw_return

----------------------------------------------------------------------------
(* WaypointStrategy.generate (src/core/strategies.py)                      *)
(*                                                                         *)
(* The waypoints lie on the corners of the 6 cm x 8 cm rectangle of the    *)
(* GraphNav model, in the same world and the same units.                   *)

MaxWaypoints == 3

\* np.linalg.norm(wp - all_points[-1]) > 1e-4
FartherThanTolerance(a, b) == Norm(Sub(b, a)) * 10 * 1000 > Metre

control_points_mut(all_points, waypoints) ==
    \* bug: every waypoint is kept, a repeated one too
    all_points \o waypoints

\* all_points: the starting position, then every waypoint that is farther
\* than the tolerance from the last point kept
RECURSIVE control_points(_, _)
control_points(all_points, waypoints) ==
    IF Len(waypoints) = 0 THEN all_points
    ELSE IF FartherThanTolerance(all_points[Len(all_points)], waypoints[1])
    THEN control_points(Append(all_points, waypoints[1]), Tail(waypoints))
    ELSE control_points(all_points, Tail(waypoints))

\* is_valid: every point of the candidate path is valid
candidate_is_valid(b, obs, candidate_path) ==
    \A i \in 1..Len(candidate_path) :
        is_position_valid(b, obs, Pt(candidate_path[i]))

choose_geometry_mut(b, obs, points_array, candidate_path) ==
    \* bug: the smoothed path is used without looking at its validity
    [geometric_path |-> candidate_path, is_smoothed |-> TRUE]

\* the geometry after the collision check of the smoothed candidate
choose_geometry(b, obs, points_array, candidate_path) ==
    IF candidate_is_valid(b, obs, candidate_path)
    THEN [geometric_path |-> candidate_path, is_smoothed |-> TRUE]
    ELSE [geometric_path |-> points_array, is_smoothed |-> FALSE]

WaypointError ==
    [raised |-> "WaypointStrategy Error: At least one waypoint is required."]

WpStart == <<0, 0, 60>>

WpPoints == {<<0, 0, 60>>, <<120, 0, 60>>, <<120, 160, 60>>}

RECURSIVE SeqsUpTo(_, _)
SeqsUpTo(S, n) ==
    IF n = 0 THEN {<<>>}
    ELSE LET shorter == SeqsUpTo(S, n - 1)
         IN shorter \cup {Append(q, x) : q \in shorter, x \in S}

WpConfigs ==
    [starting_position : {WpStart}, waypoints : SeqsUpTo(WpPoints, MaxWaypoints),
     velocity : {100}, enable_smoothing : BOOLEAN, time_step : {1}]

WaypointIdle ==
    /\ wp_config = None
    /\ wp_call = NoCall

WaypointInit ==
    /\ wp_config \in WpConfigs
    /\ wp_call = NoCall
    /\ bounds = GnBounds
    /\ obstacles \in {<<>>, <<CentreBox>>}
    /\ position = <<0, 0, 0>>
    /\ p1 = <<0, 0, 0>>
    /\ p2 = <<0, 0, 0>>
    /\ step_size = 1
    /\ world_call = NoCall

\* WaypointStrategy.generate: the error, or the trajectory with its
\* metadata, the control points, the smoothed candidate (if one was made)
\* and the geometry chosen
call_waypoint_generate ==
    /\ wp_call = NoCall
    /\ wp_config # None
    /\ \E points_array \in
            {control_points(<<wp_config.starting_position>>, wp_config.waypoints)} :
        IF Len(points_array) < 2
        THEN wp_call' = [op |-> "generate", ret |-> WaypointError]
        ELSE \E candidate_path \in
                (IF wp_config.enable_smoothing /\ Len(points_array) >= 3
                 THEN calculate_smooth_path(points_array, 10)
                 ELSE {<<>>}) :
             \E chosen \in
                {IF wp_config.enable_smoothing /\ Len(points_array) >= 3
                 THEN choose_geometry(bounds, obstacles, points_array, candidate_path)
                 ELSE [geometric_path |-> points_array, is_smoothed |-> FALSE]} :
             \E cumulative_dist \in {CumulativeDist(chosen.geometric_path)} :
             \E total_length \in {cumulative_dist[Len(chosen.geometric_path)]} :
                wp_call' =
                    [op |-> "generate",
                     ret |->
                        [raised |-> "none",
                         points_array |-> points_array,
                         candidate_path |-> candidate_path,
                         geometric_path |-> chosen.geometric_path,
                         path |-> resample(chosen.geometric_path, cumulative_dist,
                                           wp_config.velocity, wp_config.time_step),
                         metadata |->
                            [strategy |-> "Waypoint",
                             mode |-> IF chosen.is_smoothed THEN "Smoothed"
                                      ELSE "Linear (Fallback)",
                             total_distance |-> total_length,
                             velocity |-> wp_config.velocity,
                             duration |-> <<total_length, wp_config.velocity>>]]]
    /\ UNCHANGED wp_config

----------------------------------------------------------------------------
(* Several GraphNavStrategy instances                                      *)
(*                                                                         *)
(* A generate call runs on one instance: cache is the _cache of self for   *)
(* the time of the call.                                                   *)

InstanceIds == {"strategy_a", "strategy_b"}

\* GraphNavStrategy.__init__: the cache of a new instance
FreshCache == [nodes |-> <<>>, adjacency |-> EmptyDict, built |-> FALSE]

\* the configs the instances are called with: no graph, one node, a chain
InstanceConfigs ==
    {c \in GnConfigs :
        /\ c.min_path_distance = 0
        /\ ~c.enable_smoothing
        /\ EdgeSet(c.precomputed_adjacency) \in {{}, {{0, 1}, {1, 2}}}}

bind_cache_mut(caches, id, self_cache) ==
    \* bug: the cache is a class attribute, one dict for all instances
    [i \in DOMAIN caches |-> self_cache]

\* self._cache of instance id is the dict the call has worked on
bind_cache(caches, id, self_cache) == [caches EXCEPT ![id] = self_cache]

InstancesIdle ==
    /\ instances = EmptyDict
    /\ gn_self = "none"

InstancesInit ==
    /\ instances = [i \in InstanceIds |-> FreshCache]
    /\ gn_self = "none"
    /\ cache = FreshCache
    /\ config = None
    /\ attempts = 0
    /\ gn_pc = "idle"
    /\ gn_result = None
    /\ gn_attempt = None
    /\ bounds = GnBounds
    /\ obstacles = <<>>
    /\ position = <<0, 0, 0>>
    /\ p1 = <<0, 0, 0>>
    /\ p2 = <<0, 0, 0>>
    /\ step_size = 1
    /\ world_call = NoCall

\* strategy.generate(engine, config) is entered on an instance
gn_enter(id, cfg) ==
    /\ gn_pc \in {"idle", "returned", "raised"}
    /\ gn_self = "none"
    /\ gn_self' = id
    /\ cache' = instances[id]
    /\ config' = cfg
    /\ attempts' = 0
    /\ gn_pc' = "start"
    /\ gn_result' = None
    /\ gn_attempt' = None
    /\ UNCHANGED instances

\* the call is over: what it did to self._cache stays with the instance
gn_leave ==
    /\ gn_pc \in {"returned", "raised"}
    /\ gn_self # "none"
    /\ instances' = bind_cache(instances, gn_self, cache)
    /\ gn_self' = "none"
    /\ UNCHANGED graphNavVars

InstancesNext ==
    \/ \E id \in InstanceIds, cfg \in InstanceConfigs : gn_enter(id, cfg)
    \/ gn_leave
    \/ gn_self # "none" /\ GraphNavNext /\ UNCHANGED instanceVars

----------------------------------------------------------------------------
(* MathPlannerGUI (src/ui/math_planner.py)                                 *)
(*                                                                         *)
(* The sliders of a segment are inputs of the actions; the Initial Heading *)
(* slider, which is shown only while no segment is saved, is part of the   *)
(* state.  Of a plotted line the model keeps the first and the last point. *)
(* planner_last records which handler ran last and, after add_segment, the *)
(* state the segment was added to.                                         *)

MaxSegments == 3

\* the number of plotted samples: int(max(10, duration*5))
NumPlotSamples(duration) == Max(10, duration * 5)

\* t[-1] of np.linspace(0, stop, num): start + (num - 1) * step
linspace_last(stop, num) == ((num - 1) * stop) \div (num - 1)

\* the slider values a preview is computed from; a turn at a rate that is
\* not near zero is flown at a multiple of pi/2 metres per second
PlannerInputs ==
    { in \in [tab_idx : {0, 1, 2}, duration : {0, 1, 2},
              velocity : {Vel(5), VelPiHalf(2)}, accel : {2},
              turn_rate : {0, MilliDegPerQuarterTurn, -MilliDegPerQuarterTurn}] :
        /\ in.tab_idx # 2 => in.turn_rate = 0
        /\ (in.velocity.pi_half # 0) = (in.tab_idx = 2 /\ in.turn_rate # 0) }

StartHeadings == {East, NorthEast}

\* the heading the preview starts from: the slider while nothing is saved
preview_heading ==
    IF Len(saved_segments) = 0 THEN var_start_heading ELSE curr_heading

\* MathPlannerGUI._calculate_preview: next_pos, final_v, final_theta, mode
\* and the ends of the plotted line
calculate_preview(in) ==
    LET theta == preview_heading
        t == linspace_last(in.duration, NumPlotSamples(in.duration))
        v_start == curr_vel
    IN IF in.tab_idx = 0
       THEN [next_pos |-> Displace(curr_pos, theta.c, theta.s, theta.d,
                                   in.velocity.rat * t, 1),
             final_v |-> in.velocity, final_theta |-> theta,
             mode |-> "Const Vel"]
       ELSE IF in.tab_idx = 1
       THEN [next_pos |-> Displace(curr_pos, theta.c, theta.s, theta.d,
                                   2 * v_start.rat * t + in.accel * t * t, 2),
             final_v |-> VelPlus(v_start, in.accel * in.duration),
             final_theta |-> theta, mode |-> "Const Accel"]
       ELSE IF NearZeroRate(in.turn_rate)
       THEN [next_pos |-> Displace(curr_pos, theta.c, theta.s, theta.d,
                                   in.velocity.rat * t, 1),
             final_v |-> in.velocity, final_theta |-> theta, mode |-> "Turn"]
       ELSE LET turned == Rotate(theta, TurnedQuarters(in.turn_rate, t))
            IN [next_pos |-> Displace(curr_pos, turned.s - theta.s,
                                      -(turned.c - theta.c), theta.d,
                                      in.velocity.pi_half * MilliDegPerQuarterTurn,
                                      in.turn_rate),
                final_v |-> in.velocity,
                final_theta |-> Rotate(theta,
                                       TurnedQuarters(in.turn_rate, in.duration)),
                mode |-> "Turn"]

\* seg_params of add_segment
seg_params(mode, in) ==
    IF mode = "Const Vel" THEN [velocity |-> in.velocity]
    ELSE IF mode = "Const Accel" THEN [accel |-> in.accel]
    ELSE [velocity |-> in.velocity, turn_rate |-> in.turn_rate]

reverted_state_mut(removed) ==
    \* bug: undo pops the segment and leaves the head where it was
    [pos |-> curr_pos, heading |-> curr_heading, vel |-> curr_vel]

\* undo_segment: the head goes back to the start of the removed segment
reverted_state(removed) ==
    [pos |-> removed.start_pos, heading |-> removed.start_heading,
     vel |-> removed.start_vel]

new_segment_mut(in, preview) ==
    \* bug: the segment records the velocity it ends with as its start_vel
    [mode |-> preview.mode, duration |-> in.duration,
     start_pos |-> curr_pos, start_heading |-> preview_heading,
     start_vel |-> preview.final_v, params |-> seg_params(preview.mode, in)]

\* the MathSegment add_segment makes: the start state of the segment
new_segment(in, preview) ==
    [mode |-> preview.mode, duration |-> in.duration,
     start_pos |-> curr_pos, start_heading |-> preview_heading,
     start_vel |-> curr_vel, params |-> seg_params(preview.mode, in)]

\* what add_segment and undo_segment work on
PlannerState ==
    [saved_segments |-> saved_segments,
     visual_path_history |-> visual_path_history,
     curr_pos |-> curr_pos, curr_heading |-> curr_heading, curr_vel |-> curr_vel]

PlannerInit ==
    /\ saved_segments = <<>>
    /\ visual_path_history = <<>>
    /\ curr_pos = Pt(MathStart)
    /\ curr_heading = East
    /\ curr_vel = Vel(0)
    /\ var_start_heading = East
    /\ planner_last = [op |-> "__init__"]

PlannerIdle == PlannerInit

\* the Initial Heading slider is moved: on_change runs update_preview
move_start_heading(h) ==
    /\ Len(saved_segments) = 0
    /\ var_start_heading' = h
    /\ curr_heading' = h
    /\ planner_last' = [op |-> "update_preview"]
    /\ UNCHANGED <<saved_segments, visual_path_history, curr_pos, curr_vel>>

\* update_preview: another slider has moved or a tab was chosen
update_preview ==
    /\ curr_heading' = preview_heading
    /\ planner_last' = [op |-> "update_preview"]
    /\ UNCHANGED <<saved_segments, visual_path_history, curr_pos, curr_vel,
                   var_start_heading>>

\* add_segment; an acceleration is offered from a rational speed
add_segment(in) ==
    /\ Len(saved_segments) < MaxSegments
    /\ in.tab_idx = 1 => curr_vel.pi_half = 0
    /\ \E preview \in {calculate_preview(in)} :
        /\ saved_segments' = Append(saved_segments, new_segment(in, preview))
        /\ visual_path_history' =
              Append(visual_path_history, <<curr_pos, preview.next_pos>>)
        /\ curr_pos' = preview.next_pos
        /\ curr_vel' = preview.final_v
        /\ curr_heading' = preview.final_theta
    /\ planner_last' = [op |-> "add_segment", before |-> PlannerState]
    /\ UNCHANGED var_start_heading

\* undo_segment, followed by the preview that on_tab_changed asks for
undo_segment ==
    /\ Len(saved_segments) > 0
    /\ \E removed \in {saved_segments[Len(saved_segments)]} :
       \E head \in {reverted_state(removed)} :
        /\ saved_segments' = SubSeq(saved_segments, 1, Len(saved_segments) - 1)
        /\ visual_path_history' =
              SubSeq(visual_path_history, 1, Len(visual_path_history) - 1)
        /\ curr_pos' = head.pos
        /\ curr_vel' = head.vel
        /\ curr_heading' = IF Len(saved_segments) = 1 THEN var_start_heading
                           ELSE head.heading
    /\ planner_last' =
          IF planner_last.op = "add_segment"
          THEN [op |-> "undo_segment", after_add |-> TRUE,
                before |-> planner_last.before]
          ELSE [op |-> "undo_segment", after_add |-> FALSE]
    /\ UNCHANGED var_start_heading

\* undo_segment with nothing saved returns at once
undo_nothing ==
    /\ Len(saved_segments) = 0
    /\ planner_last' = [op |-> "undo_segment", after_add |-> FALSE]
    /\ UNCHANGED <<saved_segments, visual_path_history, curr_pos, curr_heading,
                   curr_vel, var_start_heading>>

PlannerNext ==
    \/ \E h \in StartHeadings : move_start_heading(h)
    \/ update_preview
    \/ \E in \in PlannerInputs : add_segment(in)
    \/ undo_segment
    \/ undo_nothing

----------------------------------------------------------------------------
(* GraphPlannerGUI._generate_preview_graph (src/ui/graph_planner.py)       *)
(*                                                                         *)
(* The random candidates of a batch are points of one line at the fixed    *)
(* height of 1.5 m, in the units of the world model: every distance is a   *)
(* whole number of units.  Node indices count from 0 as in the code.  No   *)
(* two nodes of the model are exactly radius apart.                        *)

max_batches == 100

k_neighbors == 15

\* the step_size the roadmap builder passes to check_line_of_sight
CoarseStep == Metres(4)

LinePoint(x) == <<x, 0, 3 * (Metre \div 2)>>

RmBounds ==
    [a \in {"x", "y"} |->
        IF a = "x" THEN <<0, Metres(12)>> ELSE <<-Metres(1), Metres(1)>>]

\* a box across the line between 4 m and 5 m
RmBox ==
    [min |-> <<Metres(4), -Metres(1), 0>>, max |-> <<Metres(5), Metres(1), Metres(3)>>]

\* candidates at 0, 1, 2, 4.5 (inside the box) and 8 metres
CandidatePoints ==
    {LinePoint(Metres(0)), LinePoint(Metres(1)), LinePoint(Metres(2)),
     LinePoint(9 * (Metre \div 2)), LinePoint(Metres(8))}

\* offsets in steps of 5 cm no three of which are equally spaced
SpreadOffsets == <<1, 3, 4, 9, 10, 12, 13, 27, 28, 30, 31, 36, 37, 39, 40>>

\* a batch of 17 candidates: one at 9 m, fifteen within 2 m behind it and
\* one 2.525 m before it; every candidate has its neighbours at distinct
\* distances, none of them 3 m
LineBatch ==
    <<LinePoint(Metres(9))>>
        \o [k \in 1..Len(SpreadOffsets) |->
                LinePoint(Metres(9) + SpreadOffsets[k] * (Metre \div 20))]
        \o <<LinePoint(Metres(9) - 101 * (Metre \div 40))>>

\* the batches np.random.uniform can give for num candidates
Batches(num) ==
    IF num = Len(LineBatch) THEN {LineBatch, Reverse(LineBatch)}
    ELSE [1..num -> CandidatePoints]

RmParams ==
    [num : {2, 3, Len(LineBatch)}, radius : {Metres(3), Metres(10)},
     min_dist : {Metre \div 20, Metres(2)}]

\* np.linalg.norm(p - q) < d
Closer(p, q, d) == SqNorm(Sub(p, q)) < d * d

\* [p for p in candidates if self.engine.is_position_valid(p)]
RECURSIVE valid_env_candidates(_, _, _)
valid_env_candidates(b, obs, candidates) ==
    IF Len(candidates) = 0 THEN <<>>
    ELSE (IF is_position_valid(b, obs, Pt(candidates[1]))
          THEN <<candidates[1]>> ELSE <<>>)
            \o valid_env_candidates(b, obs, Tail(candidates))

accept_candidates_mut(node_list, tree_existing, newly_added, rest, num, min_dist) ==
    \* bug: a candidate is compared with the established nodes only
    LET RECURSIVE go(_, _)
        go(ns, r) ==
            IF Len(r) = 0 \/ Len(ns) >= num THEN ns
            ELSE IF \E k \in 1..Len(tree_existing) :
                        Closer(r[1], tree_existing[k], min_dist)
            THEN go(ns, Tail(r))
            ELSE go(Append(ns, r[1]), Tail(r))
    IN go(node_list, rest)

\* the loop over valid_env_candidates: a candidate is accepted when it is
\* at least min_dist from the nodes established before the batch and from
\* the nodes added in this batch
RECURSIVE accept_candidates(_, _, _, _, _, _)
accept_candidates(node_list, tree_existing, newly_added, rest, num, min_dist) ==
    IF Len(rest) = 0 \/ Len(node_list) >= num THEN node_list
    ELSE IF \E k \in 1..Len(tree_existing) :
                Closer(rest[1], tree_existing[k], min_dist)
    THEN accept_candidates(node_list, tree_existing, newly_added, Tail(rest),
                           num, min_dist)
    ELSE IF \E k \in 1..Len(newly_added) :
                Closer(rest[1], newly_added[k], min_dist)
    THEN accept_candidates(node_list, tree_existing, newly_added, Tail(rest),
                           num, min_dist)
    ELSE accept_candidates(Append(node_list, rest[1]), tree_existing,
                           Append(newly_added, rest[1]), Tail(rest),
                           num, min_dist)

\* one pass of the sampling loop: self.nodes after the batch
sample_batch(b, obs, node_list, candidates, num, min_dist) ==
    LET valid == valid_env_candidates(b, obs, candidates)
        first_added == Len(node_list) = 0 /\ Len(valid) > 0
        established == IF first_added THEN <<valid[1]>> ELSE node_list
        rest == IF first_added THEN Tail(valid) ELSE valid
    IN IF Len(established) > 0 /\ Len(rest) > 0
       THEN accept_candidates(established, established, <<>>, rest, num, min_dist)
       ELSE established

\* the rows of tree.query(..., k, distance_upper_bound=radius) for node i:
\* the nearest first, nodes at the same distance in any order
RECURSIVE nearest_lists(_, _, _, _)
nearest_lists(node_list, i, remaining, k) ==
    IF k = 0 \/ remaining = {} THEN {<<>>}
    ELSE LET sq(j) == SqNorm(Sub(node_list[j + 1], node_list[i + 1]))
             nearest == {j \in remaining : \A o \in remaining : sq(j) <= sq(o)}
         IN UNION {{<<j>> \o tl : tl \in nearest_lists(node_list, i,
                                                       remaining \ {j}, k - 1)} :
                   j \in nearest}

tree_query(node_list, i, k, radius) ==
    nearest_lists(node_list, i,
                  {j \in 0..(Len(node_list) - 1) :
                       Closer(node_list[j + 1], node_list[i + 1], radius)},
                  k)

store_edge_mut(adj, i, j) ==
    \* bug: the backward entry is not stored
    Put(adj, i, Append(Get(adj, i, <<>>), j))

\* self.adjacency[i].append(j); self.adjacency[j].append(i)
store_edge(adj, i, j) ==
    LET forward == Put(adj, i, Append(Get(adj, i, <<>>), j))
    IN Put(forward, j, Append(Get(forward, j, <<>>), i))

\* the inner loop of the connecting phase over the neighbours found for i
RECURSIVE connect_neighbours(_, _, _, _, _, _)
connect_neighbours(b, obs, node_list, graph, i, nbr_indices) ==
    IF Len(nbr_indices) = 0 THEN graph
    ELSE LET j == nbr_indices[1]
             a == node_list[i + 1]
             c == node_list[j + 1]
         IN IF i = j \/ j >= Len(node_list) \/ ~(i < j)
            THEN connect_neighbours(b, obs, node_list, graph, i, Tail(nbr_indices))
            ELSE IF check_line_of_sight(b, obs, a, c, CoarseStep)
            THEN connect_neighbours(b, obs, node_list,
                    [adjacency |-> store_edge(graph.adjacency, i, j),
                     edges |-> Append(graph.edges,
                                      <<<<a[1], a[2]>>, <<c[1], c[2]>>>>)],
                    i, Tail(nbr_indices))
            ELSE connect_neighbours(b, obs, node_list, graph, i, Tail(nbr_indices))

RoadmapIdle ==
    /\ gp_params = None
    /\ gp_nodes = <<>>
    /\ gp_attempts = 0
    /\ gp_adjacency = EmptyDict
    /\ gp_edges = <<>>
    /\ gp_i = 0
    /\ gp_pc = "idle"

\* the Generate button is pressed with the values of the three sliders
RoadmapInit ==
    /\ gp_params \in RmParams
    /\ gp_nodes = <<>>
    /\ gp_attempts = 0
    /\ gp_adjacency = EmptyDict
    /\ gp_edges = <<>>
    /\ gp_i = 0
    /\ gp_pc = "sampling"
    /\ bounds = RmBounds
    /\ obstacles = <<RmBox>>
    /\ position = <<0, 0, 0>>
    /\ p1 = <<0, 0, 0>>
    /\ p2 = <<0, 0, 0>>
    /\ step_size = 1
    /\ world_call = NoCall

\* one pass of while len(self.nodes) < num and attempts < 100
gp_sample_batch ==
    /\ gp_pc = "sampling"
    /\ Len(gp_nodes) < gp_params.num
    /\ gp_attempts < max_batches
    /\ \E candidates \in Batches(gp_params.num) :
        gp_nodes' = sample_batch(bounds, obstacles, gp_nodes, candidates,
                                 gp_params.num, gp_params.min_dist)
    /\ gp_attempts' = gp_attempts + 1
    /\ UNCHANGED <<gp_params, gp_adjacency, gp_edges, gp_i, gp_pc>>

\* the sampling loop ends; self.edges and self.adjacency start empty
gp_sampling_ends ==
    /\ gp_pc = "sampling"
    /\ ~(Len(gp_nodes) < gp_params.num /\ gp_attempts < max_batches)
    /\ gp_edges' = <<>>
    /\ gp_adjacency' = EmptyDict
    /\ gp_i' = 0
    /\ gp_pc' = IF Len(gp_nodes) > 1 THEN "connecting" ELSE "done"
    /\ UNCHANGED <<gp_params, gp_nodes, gp_attempts>>

\* one pass of the loop over the nodes and the neighbours found for them
gp_connect_node ==
    /\ gp_pc = "connecting"
    /\ gp_i < Len(gp_nodes)
    /\ \E nbr_indices \in tree_query(gp_nodes, gp_i, k_neighbors + 1,
                                     gp_params.radius) :
       \E graph \in {connect_neighbours(bounds, obstacles, gp_nodes,
                        [adjacency |-> gp_adjacency, edges |-> gp_edges],
                        gp_i, nbr_indices)} :
        /\ gp_adjacency' = graph.adjacency
        /\ gp_edges' = graph.edges
    /\ gp_i' = gp_i + 1
    /\ gp_pc' = IF gp_i + 1 < Len(gp_nodes) THEN "connecting" ELSE "done"
    /\ UNCHANGED <<gp_params, gp_nodes, gp_attempts>>

RoadmapNext ==
    \/ gp_sample_batch
    \/ gp_sampling_ends
    \/ gp_connect_node

----------------------------------------------------------------------------
(* Individual mode (src/main.py, src/ui/app_controller.py)                 *)
(*                                                                         *)
(* run_individual_mode configures the transmitters one after another with  *)
(* a MissionController each, then synchronizes.  MissionController.run     *)
(* takes two steps on the engine: generate_path without a padding_mode,    *)
(* then set_padding_mode with the launcher's choice.  An exception ends    *)
(* the program; a cancelled setup ends run_individual_mode.                *)

\* the names of transmitters_config, in the order of the list
transmitters_config == <<"Jammer_000", "Jammer_001">>

\* LauncherApp.finish: the padding_mode of user_selection
LauncherPaddingModes == {"pad_end", "pad_start"}

IndividualIdle ==
    /\ im_index = 1
    /\ im_pc = "launcher"
    /\ im_selection = EmptyDict
    /\ im_returned = EmptyDict

IndividualInit == IndividualIdle /\ EngineInit

\* MissionController.run up to the return of engine.generate_path
mc_run_generate(pad_mode, outcome) ==
    /\ im_pc = "launcher"
    /\ im_index <= Len(transmitters_config)
    /\ LET jammer_id == transmitters_config[im_index] IN
        /\ generate_path(jammer_id, TRUE, outcome, "omitted")
        /\ im_selection' = Put(im_selection, jammer_id, pad_mode)
        /\ im_returned' = Put(im_returned, jammer_id, outcome.path)
    /\ im_pc' = "set_padding"
    /\ UNCHANGED im_index

\* MissionController.run: the strategy raises, the exception leaves main
mc_run_raises ==
    /\ im_pc = "launcher"
    /\ im_index <= Len(transmitters_config)
    /\ generate_path(transmitters_config[im_index], TRUE, [raised |-> TRUE],
                     "omitted")
    /\ im_pc' = "raised"
    /\ UNCHANGED <<im_index, im_selection, im_returned>>

\* MissionController.run returns None: the launcher was closed, or the
\* math planner gave no segment; run_individual_mode returns
mc_run_cancelled ==
    /\ im_pc = "launcher"
    /\ im_index <= Len(transmitters_config)
    /\ im_pc' = "cancelled"
    /\ UNCHANGED <<im_index, im_selection, im_returned, engineVars>>

\* MissionController.run, step 4, and the next turn of the loop
mc_run_set_padding ==
    /\ im_pc = "set_padding"
    /\ LET jammer_id == transmitters_config[im_index] IN
        set_padding_mode(jammer_id, im_selection[jammer_id])
    /\ im_index' = im_index + 1
    /\ im_pc' = "launcher"
    /\ UNCHANGED <<im_selection, im_returned>>

\* run_individual_mode after the loop: engine.finalize_trajectories()
im_synchronize ==
    /\ im_pc = "launcher"
    /\ im_index = Len(transmitters_config) + 1
    /\ finalize_trajectories
    /\ im_pc' = "saved"
    /\ UNCHANGED <<im_index, im_selection, im_returned>>

IndividualNext ==
    \/ \E pad_mode \in LauncherPaddingModes, o \in StrategyOutcomes :
          mc_run_generate(pad_mode, o)
    \/ mc_run_raises
    \/ mc_run_cancelled
    \/ mc_run_set_padding
    \/ im_synchronize

----------------------------------------------------------------------------
(* Claims about the trajectory store                                       *)

storeVars == <<jammer_paths, jammer_metadata, padding_preferences>>

C1_EqualForKnownModes ==
    (/\ call.op = "finalize_trajectories"
     /\ \A j \in DOMAIN jammer_paths :
            Get(padding_preferences, j, "pad_end") \in {"pad_end", "pad_start"})
    => \A j \in DOMAIN jammer_paths :
            Len(jammer_paths[j]) = get_max_path_length(jammer_paths)

\* C2: finalize_trajectories is idempotent: a second call right after a
\* first one changes no path, no metadata entry and no padding preference.
C2_FinalizeIdempotent ==
    [][(call.op = "finalize_trajectories" /\ call'.op = "finalize_trajectories")
        => /\ jammer_paths' = jammer_paths
           /\ jammer_metadata' = jammer_metadata
           /\ padding_preferences' = padding_preferences]_vars

\* C2 witness: a second call in a row, after a first call that padded a path
C2_Witness ==
    /\ call.op = "finalize_trajectories"
    /\ call.repeat
    /\ call.before # {}

\* C3: finalize_trajectories never truncates or rewrites: a path of length
\* n below the maximum M becomes its n positions followed by M-n copies of
\* its last position (pad_end) or M-n copies of its first position followed
\* by its n positions (pad_start); a path of length M is unchanged; in every
\* case the old path is a contiguous part of the new one.
C3_FinalizeOnlyExtends ==
    [][call'.op = "finalize_trajectories" =>
        /\ DOMAIN jammer_paths' = DOMAIN jammer_paths
        /\ \A j \in DOMAIN jammer_paths :
            LET old == jammer_paths[j]
                new == jammer_paths'[j]
                n == Len(old)
                M == CHOOSE m \in {Len(jammer_paths[i]) : i \in DOMAIN jammer_paths} :
                        \A i \in DOMAIN jammer_paths : Len(jammer_paths[i]) <= m
                mode == IF j \in DOMAIN padding_preferences
                        THEN padding_preferences[j] ELSE "pad_end"
            IN /\ Len(new) >= n
               /\ \E off \in 0..(Len(new) - n) :
                      \A i \in 1..n : new[off + i] = old[i]
               /\ n = M => new = old
               /\ (n < M /\ mode = "pad_end") =>
                      /\ Len(new) = M
                      /\ \A i \in 1..n : new[i] = old[i]
                      /\ \A i \in (n + 1)..M : new[i] = old[n]
               /\ (n < M /\ mode = "pad_start") =>
                      /\ Len(new) = M
                      /\ \A i \in 1..(M - n) : new[i] = old[1]
                      /\ \A i \in 1..n : new[M - n + i] = old[i]]_vars

\* C3 witness: a call padded a pad_end path of two different positions
\* to length three
C3_Witness ==
    /\ call.op = "finalize_trajectories"
    /\ \E j \in call.padded :
        /\ padding_preferences[j] = "pad_end"
        /\ Len(jammer_paths[j]) = 3
        /\ jammer_paths[j][1] # jammer_paths[j][2]
        /\ jammer_paths[j][2] = jammer_paths[j][3]

\* C4: a successful generate_path stores under the id exactly the returned
\* path and metadata and the given padding mode (pad_end when omitted),
\* replacing what the id had, and leaves every other id as it was.
C4_GenerateStores ==
    [][(call'.op = "generate_path" /\ call'.raised = "none") =>
        LET j == call'.id IN
        /\ jammer_paths'[j] = call'.path
        /\ jammer_metadata'[j] = call'.metadata
        /\ padding_preferences'[j] =
              (IF call'.mode_arg = "omitted" THEN "pad_end" ELSE call'.mode_arg)
        /\ DOMAIN jammer_paths' = DOMAIN jammer_paths \cup {j}
        /\ DOMAIN jammer_metadata' = DOMAIN jammer_metadata \cup {j}
        /\ DOMAIN padding_preferences' = DOMAIN padding_preferences \cup {j}
        /\ \A i \in DOMAIN jammer_paths \ {j} : jammer_paths'[i] = jammer_paths[i]
        /\ \A i \in DOMAIN jammer_metadata \ {j} :
              jammer_metadata'[i] = jammer_metadata[i]
        /\ \A i \in DOMAIN padding_preferences \ {j} :
              padding_preferences'[i] = padding_preferences[i]]_vars

\* C4 witness: a successful call without padding_mode replaced an earlier
\* entry of the id while another id is stored
C4_Witness ==
    /\ call.op = "generate_path"
    /\ call.raised = "none"
    /\ call.replaced
    /\ call.mode_arg = "omitted"
    /\ DOMAIN jammer_paths = JammerIds

\* C5: get_all_positions_at_step(k) returns exactly the ids whose path has
\* at least k+1 elements, each with element k of its path; a shorter path
\* is left out, and the store is not changed.
C5_PositionsAtStep ==
    [][call'.op = "get_all_positions_at_step" =>
        LET k == call'.step_index
            ret == call'.ret
        IN /\ UNCHANGED storeVars
           /\ DOMAIN ret = {j \in DOMAIN jammer_paths : Len(jammer_paths[j]) >= k + 1}
           /\ \A j \in DOMAIN ret : ret[j] = jammer_paths[j][k + 1]]_vars

\* C5 witness: a query that answers for one id and leaves out another,
\* shorter, one
C5_Witness ==
    /\ call.op = "get_all_positions_at_step"
    /\ DOMAIN call.ret # {}
    /\ DOMAIN jammer_paths \ DOMAIN call.ret # {}

\* the three maps of the store hold the same entity ids
SameIds ==
    /\ DOMAIN jammer_paths = DOMAIN jammer_metadata
    /\ DOMAIN jammer_paths = DOMAIN padding_preferences

\* an id that is new in one of the maps was put there by generate_path
IdsOnlyThroughGenerate ==
    \A j \in JammerIds :
        (\/ j \in DOMAIN jammer_paths' \ DOMAIN jammer_paths
         \/ j \in DOMAIN jammer_metadata' \ DOMAIN jammer_metadata
         \/ j \in DOMAIN padding_preferences' \ DOMAIN padding_preferences)
        => (call'.op = "generate_path" /\ call'.id = j)

\* C27: after any sequence of generate_path, set_padding_mode and
\* finalize_trajectories calls the path map, the metadata map and the
\* padding-preference map hold the same entity ids, and an id appears in
\* the store only through generate_path.
C27_StoreConsistent ==
    /\ []SameIds
    /\ [][IdsOnlyThroughGenerate]_vars

\* what the three calls keep: every id with a path has metadata and a
\* preference, and paths and metadata appear only through generate_path
C27_PathsHaveMetadataAndMode ==
    /\ [](/\ DOMAIN jammer_paths = DOMAIN jammer_metadata
          /\ DOMAIN jammer_paths \subseteq DOMAIN padding_preferences)
    /\ [][\A j \in JammerIds :
            j \in DOMAIN jammer_paths' \ DOMAIN jammer_paths
                => (call'.op = "generate_path" /\ call'.id = j)]_vars

\* set_padding_mode has been called on an id that generate_path never
\* stored
C27_Witness ==
    /\ call.op = "set_padding_mode"
    /\ call.id \notin DOMAIN jammer_paths
    /\ call.id \in DOMAIN padding_preferences

\* C29: a generate_path that fails, by the TypeError for a config that is
\* no BaseMotionConfig or by an exception of the strategy, leaves the path
\* map, the metadata map and the padding-preference map as they were, for
\* the id of the call and for every other id.
C29_FailedGenerateKeepsStore ==
    [][(call'.op = "generate_path" /\ call'.raised # "none")
         => UNCHANGED <<jammer_paths, jammer_metadata, padding_preferences>>]_vars

\* a strategy has raised for an id that holds an earlier path, with a
\* padding mode other than the default
C29_Witness ==
    /\ call.op = "generate_path"
    /\ call.raised = "RuntimeError"
    /\ call.id \in DOMAIN jammer_paths
    /\ call.id \in DOMAIN jammer_metadata
    /\ Get(padding_preferences, call.id, "pad_end") = "pad_start"

\* the TypeError on an id that holds an earlier path
C29_WitnessTypeError ==
    /\ call.op = "generate_path"
    /\ call.raised = "TypeError"
    /\ call.id \in DOMAIN jammer_paths

----------------------------------------------------------------------------
(* Claims about the world model                                            *)

\* C6: is_position_valid(p) is true exactly when p lies within [lower,
\* upper] on every axis present in bounds and in the closed box of no
\* obstacle (a point on a face of a box is invalid); the call changes
\* nothing of the world.
C6_ValidIffInBoundsOutsideBoxes ==
    [][world_call'.op = "is_position_valid" =>
        /\ UNCHANGED <<bounds, obstacles, position>>
        /\ world_call'.ret =
            (/\ \A a \in DOMAIN bounds :
                    LET c == IF a = "x" THEN position[1]
                             ELSE IF a = "y" THEN position[2] ELSE position[3]
                    IN bounds[a][1] <= c /\ c <= bounds[a][2]
             /\ ~ \E k \in DOMAIN obstacles :
                    /\ obstacles[k].min[1] <= position[1]
                    /\ position[1] <= obstacles[k].max[1]
                    /\ obstacles[k].min[2] <= position[2]
                    /\ position[2] <= obstacles[k].max[2]
                    /\ obstacles[k].min[3] <= position[3]
                    /\ position[3] <= obstacles[k].max[3])]_vars

\* C6 witness: a position within all three bounds, on the top face of a
\* box and strictly inside it on no axis pair alone, is reported invalid
C6_Witness ==
    /\ world_call.op = "is_position_valid"
    /\ world_call.ret = FALSE
    /\ DOMAIN bounds = {"x", "y", "z"}
    /\ \A i \in 1..3 : AxisInRange(bounds, i, Pt(position))
    /\ \E k \in DOMAIN obstacles :
        /\ inside_box(obstacles[k], Pt(position))
        /\ position[3] = obstacles[k].max[3]

\* the points at which a segment of length dist is sampled: every whole
\* multiple of step up to dist
SampleDistances(dist, step) == {t \in 1..dist : t % step = 0}

Ceil(a, b) == (a + b - 1) \div b

Min(a, b) == IF a <= b THEN a ELSE b

\* C7 (as claimed): true below 1e-3; otherwise ceil(|p2-p1| / step_size)
\* samples of (p1, p2], the last of them p2, decide the answer.
C7_CeilSamples ==
    world_call.op = "check_line_of_sight" =>
        LET dist == Norm(Sub(p2, p1)) IN
        world_call.ret =
            (\/ dist * 1000 < Metre
             \/ \A i \in 1..Ceil(dist, step_size) :
                    is_position_valid(bounds, obstacles,
                        test_point(p1, p2, dist, Min(i * step_size, dist))))

\* C7 (amended): true below 1e-3; otherwise the answer is whether every
\* point at a distance step_size, 2*step_size, ... <= |p2-p1| from p1 is
\* valid: floor(|p2-p1| / step_size) samples, p2 among them only when the
\* distance is a whole multiple of step_size.
C7_FloorSamples ==
    world_call.op = "check_line_of_sight" =>
        LET dist == Norm(Sub(p2, p1)) IN
        world_call.ret =
            (\/ dist * 1000 < Metre
             \/ \A t \in SampleDistances(dist, step_size) :
                    is_position_valid(bounds, obstacles,
                        test_point(p1, p2, dist, t)))

\* C7 witness: a segment longer than one step whose end point is invalid
\* and is not sampled; the call answers true
C7_Witness ==
    /\ world_call.op = "check_line_of_sight"
    /\ world_call.ret = TRUE
    /\ Norm(Sub(p2, p1)) > step_size
    /\ Norm(Sub(p2, p1)) % step_size # 0
    /\ ~ is_position_valid(bounds, obstacles, Pt(p2))

----------------------------------------------------------------------------
(* Claims about A* search                                                  *)

\* the nodes that can be reached from the nodes of S
RECURSIVE ReachableFrom(_, _)
ReachableFrom(S, adj) ==
    LET T == S \cup {j \in UNION EdgeSet(adj) : \E i \in S : {i, j} \in EdgeSet(adj)}
    IN IF T = S THEN S ELSE ReachableFrom(T, adj)

\* C8: on a graph whose only edges are A-B and B-C, a_star_search from A
\* to C returns the nodes A, B, C in this order; for a start and an end in
\* different connected components it returns the empty list.
C8_ChainAndDisconnected ==
    astar_call.op = "a_star_search" =>
        /\ \A b \in DOMAIN nodes :
            (/\ Cardinality({start_idx, b, end_idx}) = 3
             /\ EdgeSet(adjacency) = {{start_idx, b}, {b, end_idx}})
            => astar_call.ret = <<nodes[start_idx], nodes[b], nodes[end_idx]>>
        /\ end_idx \notin ReachableFrom({start_idx}, adjacency)
            => astar_call.ret = <<>>

\* C8 witness: the search has run on a chain of three different nodes, from
\* one end of the chain to the other
C8_Witness ==
    /\ astar_call.op = "a_star_search"
    /\ \E b \in DOMAIN nodes :
        /\ Cardinality({start_idx, b, end_idx}) = 3
        /\ EdgeSet(adjacency) = {{start_idx, b}, {b, end_idx}}
    /\ Len(astar_call.ret) = 3

\* C8 witness of the second case: the search has run between two components
C8_WitnessDisconnected ==
    /\ astar_call.op = "a_star_search"
    /\ EdgeSet(adjacency) # {}
    /\ end_idx \notin ReachableFrom({start_idx}, adjacency)
    /\ astar_call.ret = <<>>

\* the simple paths from node a to node b: sequences of different node
\* indices joined by edges
SimplePaths(adj, a, b) ==
    {q \in UNION {[1..n -> DOMAIN nodes] : n \in 1..Cardinality(DOMAIN nodes)} :
        /\ q[1] = a
        /\ q[Len(q)] = b
        /\ \A k, l \in 1..Len(q) : k # l => q[k] # q[l]
        /\ \A k \in 1..(Len(q) - 1) : {q[k], q[k + 1]} \in EdgeSet(adj)}

\* the summed Euclidean length of the edges of a path of node indices
IndexPathLength(q) == PathLength([k \in 1..Len(q) |-> nodes[q[k]]])

Symmetric(adj) ==
    \A i \in DOMAIN adj : \A k \in 1..Len(adj[i]) :
        /\ adj[i][k] \in DOMAIN adj
        /\ \E l \in 1..Len(adj[adj[i][k]]) : adj[adj[i][k]][l] = i

\* C26: a_star_search returns a shortest path: on a graph with symmetric
\* adjacency, for a start and an end in the same connected component, the
\* result starts at the start node, ends at the end node, joins only
\* adjacent nodes and has the least total Euclidean edge length of all
\* paths from start to end.
C26_ShortestPath ==
    (/\ astar_call.op = "a_star_search"
     /\ Symmetric(adjacency)
     /\ end_idx \in ReachableFrom({start_idx}, adjacency)) =>
        \E q \in SimplePaths(adjacency, start_idx, end_idx) :
            /\ astar_call.ret = [k \in 1..Len(q) |-> nodes[q[k]]]
            /\ \A o \in SimplePaths(adjacency, start_idx, end_idx) :
                  IndexPathLength(q) <= IndexPathLength(o)

\* the search has returned a path of two edges where a longer path of two
\* edges exists
C26_Witness ==
    /\ astar_call.op = "a_star_search"
    /\ Len(astar_call.ret) = 3
    /\ \E o \in SimplePaths(adjacency, start_idx, end_idx) :
          /\ Len(o) = 3
          /\ IndexPathLength(o) > PathLength(astar_call.ret)

----------------------------------------------------------------------------
(* Claims about GraphNavStrategy.generate                                  *)

RejectReasons == {"same_node", "no_path", "too_short", "unsafe"}

GnDone == gn_pc \in {"returned", "raised"}

ExhaustedError ==
    [raised |-> "GraphNav Error: Failed to find a valid path after maximum attempts."]

\* the accepted attempt passed every filter of the loop
AcceptedPassedFilters ==
    /\ gn_attempt.reject = "none"
    /\ gn_attempt.start # gn_attempt.goal
    /\ Len(gn_attempt.raw_waypoints) > 0
    /\ PathLength(gn_attempt.raw_waypoints) >= config.min_path_distance
    /\ config.enable_smoothing => is_safe(bounds, obstacles, gn_result.valid_path)

GnQueryOutcome ==
    /\ attempts \in 0..max_attempts
    /\ gn_pc = "loop" =>
        /\ gn_result = None
        /\ attempts > 0 => gn_attempt.reject \in RejectReasons
    /\ gn_pc = "returned" =>
        /\ gn_result.metadata.attempts = attempts
        /\ gn_result.metadata.attempts \in 1..max_attempts
        /\ AcceptedPassedFilters
    /\ (gn_pc = "raised" /\ cache.built /\ Cardinality(DOMAIN cache.nodes) >= 2) =>
        /\ attempts = max_attempts
        /\ gn_attempt.reject \in RejectReasons
        /\ gn_result = ExhaustedError

\* C9: a GraphNav query always ends, after at most max_attempts = 100
\* attempts, in one of two ways: it returns a path that passed every filter,
\* with an attempt count between 1 and 100 in its metadata, or, every one of
\* the 100 attempts having been rejected, it raises the 'failed to find a
\* valid path' error; it never loops forever.
C9_QueryTerminates == []GnQueryOutcome /\ <>GnDone

\* all 100 attempts were rejected, the last one for an unsafe smoothed curve
C9_Witness ==
    /\ gn_pc = "raised"
    /\ gn_result = ExhaustedError
    /\ attempts = max_attempts
    /\ gn_attempt.reject = "unsafe"

\* the last attempt of the budget was accepted
C9_WitnessLastAttempt ==
    /\ gn_pc = "returned"
    /\ gn_result.metadata.attempts = max_attempts

\* C10: with enable_smoothing set the accepted geometric path is the
\* smoothed curve and every sample of it passes is_position_valid; an
\* attempt whose smoothed curve has an invalid sample is discarded, the
\* loop goes on while the budget lasts, and nothing is returned for it.
C10_SmoothedOrDiscarded ==
    /\ (gn_pc = "returned" /\ config.enable_smoothing) =>
        /\ gn_attempt.smoothed \in calculate_smooth_path(gn_attempt.raw_waypoints, 10)
        /\ gn_result.valid_path = gn_attempt.smoothed
        /\ \A i \in 1..Len(gn_attempt.smoothed) :
            is_position_valid(bounds, obstacles, Pt(gn_attempt.smoothed[i]))
    /\ (gn_pc \in {"loop", "raised"} /\ attempts > 0 /\ gn_attempt.reject = "unsafe") =>
        /\ config.enable_smoothing
        /\ gn_result \in {None, ExhaustedError}
        /\ attempts < max_attempts => gn_pc = "loop"

\* an attempt was discarded because its smoothed curve enters the box, and
\* the loop goes on
C10_Witness ==
    /\ gn_pc = "loop"
    /\ attempts > 0
    /\ attempts < max_attempts
    /\ gn_attempt.reject = "unsafe"
    /\ obstacles # <<>>

\* a smoothed curve that is not the raw chain was accepted next to the box
C10_WitnessAccepted ==
    /\ gn_pc = "returned"
    /\ config.enable_smoothing
    /\ obstacles # <<>>
    /\ Len(gn_attempt.raw_waypoints) >= 3
    /\ gn_result.valid_path # gn_attempt.raw_waypoints

\* C11: every path GraphNav returns comes from the A* result between two
\* distinct roadmap nodes, and the summed edge lengths of that raw chain are
\* at least min_path_distance; an attempt whose chain is shorter is
\* discarded, nothing is returned for it, and the loop goes on while the
\* budget lasts.
C11_DistinctAndLongEnough ==
    /\ gn_pc = "returned" =>
        /\ gn_attempt.start \in DOMAIN cache.nodes
        /\ gn_attempt.goal \in DOMAIN cache.nodes
        /\ gn_attempt.start # gn_attempt.goal
        /\ gn_attempt.raw_waypoints =
              a_star_search(cache.nodes, cache.adjacency,
                            gn_attempt.start, gn_attempt.goal)
        /\ Len(gn_attempt.raw_waypoints) >= 2
        /\ gn_attempt.raw_waypoints[1] = cache.nodes[gn_attempt.start]
        /\ gn_attempt.raw_waypoints[Len(gn_attempt.raw_waypoints)] =
              cache.nodes[gn_attempt.goal]
        /\ PathLength(gn_attempt.raw_waypoints) >= config.min_path_distance
    /\ (gn_pc \in {"loop", "raised"} /\ attempts > 0
          /\ gn_attempt.reject = "too_short") =>
        /\ config.min_path_distance > 0
        /\ gn_result \in {None, ExhaustedError}
        /\ attempts < max_attempts => gn_pc = "loop"

\* a one-edge chain was discarded as too short and the loop goes on
C11_Witness ==
    /\ gn_pc = "loop"
    /\ attempts > 0
    /\ attempts < max_attempts
    /\ gn_attempt.reject = "too_short"

\* a two-edge chain was returned under a positive minimum distance
C11_WitnessReturned ==
    /\ gn_pc = "returned"
    /\ config.min_path_distance > 0
    /\ Len(gn_attempt.raw_waypoints) = 3

----------------------------------------------------------------------------
(* Claims about configuration errors                                       *)

NoSegmentsError ==
    [raised |-> "MathStrategy Error: No segments provided in configuration."]

\* the config of the GraphNav call has no usable graph
GnNoGraph ==
    ~(Truthy(config.precomputed_nodes) /\ Truthy(config.precomputed_adjacency))

GnUndersized == ~GnNoGraph /\ Cardinality(DOMAIN config.precomputed_nodes) < 2

\* C12: configuration errors are fatal at once: MathStrategy.generate on an
\* empty segment list raises and returns no path; GraphNav generate with no
\* graph built, or with a graph of fewer than 2 nodes, raises before any
\* search attempt is made and returns no path.
C12_ConfigErrorsFatal ==
    /\ (math_call.op = "generate" /\ Len(math_config.segments) = 0) =>
            math_call.ret = NoSegmentsError
    /\ (math_call.op = "generate" /\ Len(math_config.segments) > 0) =>
            math_call.ret.raised = "none"
    /\ (gn_pc \notin {"idle", "start"} /\ GnNoGraph) =>
        /\ gn_pc = "raised"
        /\ gn_result = NotBuiltError
        /\ attempts = 0
        /\ gn_attempt = None
        /\ ~cache.built
    /\ (gn_pc \notin {"idle", "start"} /\ GnUndersized) =>
        /\ gn_pc = "raised"
        /\ gn_result = TooSmallError
        /\ attempts = 0
        /\ gn_attempt = None
    /\ (gn_pc = "raised" /\ attempts = 0) => GnNoGraph \/ GnUndersized

\* generate has raised on a graph of one node
C12_Witness ==
    /\ gn_pc = "raised"
    /\ GnUndersized
    /\ gn_result = TooSmallError

\* generate has raised with no graph built
C12_WitnessNotBuilt ==
    /\ gn_pc = "raised"
    /\ GnNoGraph
    /\ gn_result = NotBuiltError

\* MathStrategy.generate has raised on an empty segment list
C12_WitnessNoSegments ==
    /\ math_call.op = "generate"
    /\ math_config.segments = <<>>
    /\ math_call.ret = NoSegmentsError

----------------------------------------------------------------------------
(* Claims about RandomWalkStrategy.generate                                *)

RwValid(pos) == is_position_valid(bounds, obstacles, pos)

\* path[step] (rows counting from 1) is its predecessor kept because all
\* max_retries candidates were invalid
RwStalled(step) ==
    /\ rw_result.path[step] = rw_result.path[step - 1]
    /\ Len(rw_tried[step]) = rw_config.max_retries
    /\ \A k \in 1..Len(rw_tried[step]) : ~RwValid(rw_tried[step][k])

\* path[step] is the first candidate that was valid, one step_size away
RwMoved(step) ==
    LET tried == rw_tried[step]
        size == rw_config.step_size
        sq == SqDist(rw_result.path[step - 1], rw_result.path[step])
    IN /\ Len(tried) \in 1..rw_config.max_retries
       /\ rw_result.path[step] = tried[Len(tried)]
       /\ RwValid(rw_result.path[step])
       /\ \A k \in 1..(Len(tried) - 1) : ~RwValid(tried[k])
       /\ sq.n = size * size * sq.d

C14_WalkAvoidsObstacles ==
    (rw_pc = "returned" /\ RwValid(Pt(rw_config.starting_position))) =>
        \A step \in 1..Len(rw_result.path) : RwValid(rw_result.path[step])

\* a walk of three positions next to the box, with a candidate inside the
\* box drawn and passed over
C14_Witness ==
    /\ rw_pc = "returned"
    /\ obstacles # <<>>
    /\ RwValid(Pt(rw_config.starting_position))
    /\ Len(rw_result.path) = 3
    /\ rw_result.path[3] # rw_result.path[1]
    /\ \E step \in 2..3 : \E k \in 1..Len(rw_tried[step]) :
        /\ ~RwValid(rw_tried[step][k])
        /\ inside_box(RwBox, rw_tried[step][k])

----------------------------------------------------------------------------
(* Claims about MathStrategy                                               *)

\* the config holds two Const Vel segments of one heading and velocity, the
\* second starting at the closed-form end position of the first
TwoChainedConstVel ==
    /\ Len(math_config.segments) = 2
    /\ LET first == math_config.segments[1]
           second == math_config.segments[2]
       IN /\ first.mode = "Const Vel"
          /\ second.mode = "Const Vel"
          /\ second.start_heading = first.start_heading
          /\ "velocity" \in DOMAIN first.params
          /\ second.params = first.params
          /\ second.start_pos = calculate_position_at_t(first, first.duration)

\* the single Const Vel segment that covers both durations
MergedConstVel ==
    [math_config.segments[1] EXCEPT
        !.duration = math_config.segments[1].duration
                        + math_config.segments[2].duration]

\* C15: two chained Const Vel segments of the same heading and velocity
\* with durations d1 and d2 give, through MathStrategy.generate, the same
\* sampled positions as one Const Vel segment of duration d1 + d2 from the
\* same start state and time_step.
C15_ConstVelComposes ==
    (math_call.op = "generate" /\ TwoChainedConstVel) =>
        math_call.ret.path =
            math_generate([segments |-> <<MergedConstVel>>,
                           time_step |-> math_config.time_step]).path

\* a chain of two Const Vel segments of positive duration has been sampled,
\* with a sample inside the second segment and a final partial step
C15_Witness ==
    /\ math_call.op = "generate"
    /\ TwoChainedConstVel
    /\ math_config.segments[1].duration > 0
    /\ math_config.segments[2].duration > 0
    /\ math_config.segments[1].start_heading = NorthEast
    /\ \E i \in 1..Len(math_call.ret.samples) :
        /\ math_call.ret.samples[i].seg_idx = 1
        /\ math_call.ret.samples[i].t_local > 0
        /\ math_call.ret.samples[i].t_local < math_config.segments[2].duration

\* the world of the end-to-end scenario: bounds x, y in [-100, 100] and one
\* obstacle from (-10, -10, -10) to (10, 10, 10)
E2EBounds == [a \in {"x", "y"} |-> <<-100, 100>>]

E2EBox == [min |-> <<-10, -10, -10>>, max |-> <<10, 10, 10>>]

\* its config: one Const Vel segment, heading 0, velocity 5, duration 4,
\* from (-20, 0, 0), sampled at time_step 1
E2EConfig ==
    [segments |->
        <<[mode |-> "Const Vel", duration |-> 4, start_pos |-> Pt(<<-20, 0, 0>>),
           start_heading |-> East, start_vel |-> Vel(0),
           params |-> [velocity |-> Vel(5)]]>>,
     time_step |-> 1]

E2ERan == math_call.op = "generate" /\ math_config = E2EConfig

E2EPathIs(xs) ==
    math_call.ret.path = [i \in 1..Len(xs) |-> Pt(<<xs[i], 0, 0>>)]

\* is_position_valid of every point of the returned path, in path order
E2EValidity ==
    [i \in 1..Len(math_call.ret.path) |->
        is_position_valid(E2EBounds, <<E2EBox>>, math_call.ret.path[i])]

\* C16 as stated: the path has x = -20, -15, -10, -5, 0 and every point is
\* valid until x = 0, which is invalid.
C16_ValidUntilOrigin ==
    E2ERan =>
        /\ E2EPathIs(<<-20, -15, -10, -5, 0>>)
        /\ E2EValidity = <<TRUE, TRUE, TRUE, TRUE, FALSE>>

\* C16, amended: the path has x = -20, -15, -10, -5, 0; the points at
\* x = -20 and x = -15 are valid, and from x = -10, which lies on the face
\* of the obstacle, every point is invalid.
C16_ValidUntilFace ==
    E2ERan =>
        /\ E2EPathIs(<<-20, -15, -10, -5, 0>>)
        /\ E2EValidity = <<TRUE, TRUE, FALSE, FALSE, FALSE>>

\* the scenario has run and its third point lies on the obstacle face
C16_Witness ==
    /\ E2ERan
    /\ Len(math_call.ret.path) = 5
    /\ math_call.ret.path[3] = Pt(<<E2EBox.min[1], 0, 0>>)

----------------------------------------------------------------------------
(* Claims about WaypointStrategy.generate                                  *)

WpReturned == wp_call.op = "generate" /\ wp_call.ret.raised = "none"

\* smoothing was on and at least 3 control points were left
WpSmoothingTried ==
    /\ WpReturned
    /\ wp_config.enable_smoothing
    /\ Len(wp_call.ret.points_array) >= 3

WpCandidateValid ==
    \A i \in 1..Len(wp_call.ret.candidate_path) :
        is_position_valid(bounds, obstacles, Pt(wp_call.ret.candidate_path[i]))

\* C17: with smoothing enabled and at least 3 control points, Waypoint
\* generate takes the smoothed curve as geometry exactly when every sample
\* of it passes is_position_valid; otherwise it falls back to the polyline
\* through the control points, raises nothing and still returns a
\* trajectory; the metadata mode is 'Smoothed' only in the first case.
C17_SmoothedOrLinear ==
    /\ WpSmoothingTried =>
        /\ wp_call.ret.candidate_path
              \in calculate_smooth_path(wp_call.ret.points_array, 10)
        /\ WpCandidateValid =>
            /\ wp_call.ret.geometric_path = wp_call.ret.candidate_path
            /\ wp_call.ret.metadata.mode = "Smoothed"
        /\ ~WpCandidateValid =>
            /\ wp_call.ret.geometric_path = wp_call.ret.points_array
            /\ wp_call.ret.metadata.mode = "Linear (Fallback)"
            /\ Len(wp_call.ret.path) >= 2
    /\ (WpReturned /\ wp_call.ret.metadata.mode = "Smoothed") =>
        WpSmoothingTried /\ WpCandidateValid
    /\ (wp_call.op = "generate"
          /\ Len(control_points(<<wp_config.starting_position>>,
                                wp_config.waypoints)) >= 2) => WpReturned

\* a smoothed curve through the box was rejected and the polyline returned
C17_Witness ==
    /\ WpSmoothingTried
    /\ ~WpCandidateValid
    /\ obstacles # <<>>
    /\ wp_call.ret.geometric_path = wp_call.ret.points_array
    /\ wp_call.ret.metadata.mode = "Linear (Fallback)"

\* a smoothed curve that is not the polyline was accepted
C17_WitnessSmoothed ==
    /\ WpSmoothingTried
    /\ WpCandidateValid
    /\ wp_call.ret.geometric_path # wp_call.ret.points_array
    /\ wp_call.ret.metadata.mode = "Smoothed"

----------------------------------------------------------------------------
(* Claims about GraphNavStrategy instances                                 *)

\* a fresh instance is called without a precomputed graph: graph not built
FreshFailsNotBuilt ==
    (gn_self # "none" /\ gn_pc # "start" /\ instances[gn_self] = FreshCache
        /\ GnNoGraph) =>
            /\ gn_pc = "raised"
            /\ gn_result = NotBuiltError
            /\ cache = FreshCache

\* no step changes the cache of an instance other than the one it runs on
OtherCachesKept ==
    \A id \in InstanceIds :
        instances'[id] # instances[id] => (id = gn_self /\ instances'[id] = cache)

\* C18: the roadmap cache is local to a strategy instance: loading the
\* graph in one instance never changes the cache of another, so a fresh
\* instance called without a precomputed graph fails with 'graph not built'
\* whatever other instances have loaded; generate changes nothing in the
\* world (bounds, obstacles, trajectory store).
C18_CacheInstanceLocal ==
    /\ []FreshFailsNotBuilt
    /\ [][OtherCachesKept]_vars
    /\ [][UNCHANGED <<bounds, obstacles, engineVars>>]_vars

\* a fresh instance has failed with 'graph not built' while the other
\* instance holds a loaded graph
C18_Witness ==
    /\ gn_self # "none"
    /\ instances[gn_self] = FreshCache
    /\ gn_pc = "raised"
    /\ gn_result = NotBuiltError
    /\ \E other \in InstanceIds \ {gn_self} :
        instances[other].built /\ EdgeSet(instances[other].adjacency) # {}

----------------------------------------------------------------------------
(* Claims about the timeline of MathStrategy.generate                      *)

MathSampled == math_call # NoCall /\ math_call.ret.raised = "none"

\* the time at which segment k (counted from 0) starts
SegStart(segments, k) == SumSeq([i \in 1..k |-> segments[i].duration])

TotalDuration(segments) == SegStart(segments, Len(segments))

\* the sampled times are 0, dt, 2dt, ... below T, then T
GridIsUniformPlusFinal(samples, T, dt) ==
    LET n == Len(samples)
    IN /\ n >= 1
       /\ samples[n].t = T
       /\ \A i \in 1..(n - 1) : samples[i].t = (i - 1) * dt /\ samples[i].t < T
       /\ (n - 1) * dt >= T

\* the cursor moves forward only and stays within the segment list
CursorForward(samples, segments) ==
    /\ \A i \in 1..Len(samples) : samples[i].seg_idx \in 0..(Len(segments) - 1)
    /\ \A i \in 1..(Len(samples) - 1) : samples[i].seg_idx <= samples[i + 1].seg_idx

\* every sample is evaluated in the segment whose interval holds its time
OwnerSegment(samples, segments) ==
    \A i \in 1..Len(samples) :
        LET smp == samples[i]
            seg == segments[smp.seg_idx + 1]
            start == SegStart(segments, smp.seg_idx)
        IN /\ start <= smp.t
           /\ \/ smp.t < start + seg.duration
              \/ smp.seg_idx = Len(segments) - 1 /\ smp.t = start + seg.duration
           /\ smp.seg_start_time = start
           /\ smp.t_local = smp.t - start
           /\ smp.t_local \in 0..seg.duration
           /\ smp.pos = calculate_position_at_t(seg, smp.t_local)

\* the final sample is the last segment at its full duration
FinalSample(samples, path, segments) ==
    LET last == segments[Len(segments)]
    IN /\ samples[Len(samples)].seg_idx = Len(segments) - 1
       /\ samples[Len(samples)].t_local = last.duration
       /\ Len(path) = Len(samples)
       /\ path[Len(path)] = calculate_position_at_t(last, last.duration)

\* C20: MathModeling generate samples the global times 0, dt, 2dt, ...
\* below the total duration T plus a final sample at exactly T, also when
\* T is not a multiple of dt; the segment cursor only moves forward and
\* never past the last segment, every sample is evaluated in the segment
\* whose cumulative time interval contains its time, with the local time in
\* [0, duration], and the final sample is the last segment at its full
\* duration.
C20_Timeline ==
    MathSampled =>
        LET segments == math_config.segments
            ret == math_call.ret
            T == TotalDuration(segments)
        IN /\ ret.metadata.total_duration = T
           /\ GridIsUniformPlusFinal(ret.samples, T, math_config.time_step)
           /\ CursorForward(ret.samples, segments)
           /\ OwnerSegment(ret.samples, segments)
           /\ FinalSample(ret.samples, ret.path, segments)

\* three segments, the middle one of zero duration and never sampled, and
\* a total duration that is not a multiple of the time step
C20_Witness ==
    /\ MathSampled
    /\ Len(math_config.segments) = 3
    /\ math_config.segments[2].duration = 0
    /\ math_config.segments[1].duration > 0
    /\ math_config.segments[3].duration > 0
    /\ TotalDuration(math_config.segments) % math_config.time_step # 0
    /\ TotalDuration(math_config.segments) > math_config.time_step
    /\ \A i \in 1..Len(math_call.ret.samples) : math_call.ret.samples[i].seg_idx # 1
    /\ \E i \in 1..Len(math_call.ret.samples) : math_call.ret.samples[i].seg_idx = 0

----------------------------------------------------------------------------
(* Claims about the math planner                                           *)

\* the closed-form state at the end of a segment: the position MathStrategy
\* computes at t = duration, the heading and the velocity
ClosedFormExit(seg) ==
    LET omega == ParamGet(seg.params, "turn_rate", 0)
    IN [pos |-> calculate_position_at_t(seg, seg.duration),
        heading |->
            IF seg.mode = "Turn" /\ ~NearZeroRate(omega)
            THEN Rotate(seg.start_heading, TurnedQuarters(omega, seg.duration))
            ELSE seg.start_heading,
        vel |->
            IF seg.mode = "Const Accel"
            THEN VelPlus(seg.start_vel, seg.params.accel * seg.duration)
            ELSE seg.params.velocity]

StartsFrom(seg, state) ==
    /\ seg.start_pos = state.pos
    /\ seg.start_heading = state.heading
    /\ seg.start_vel = state.vel

\* C19: after any sequence of add_segment and undo_segment the first saved
\* segment starts at the configured starting position, every later saved
\* segment starts in the closed-form exit state of the segment before it
\* (position at t = duration as MathStrategy computes it; heading advanced
\* by omega * duration for a non-degenerate Turn only; velocity
\* v0 + a * duration for Const Accel and the commanded one otherwise), and
\* so does the head of the path.
C19_ChainedFromClosedForm ==
    /\ Len(saved_segments) > 0 => saved_segments[1].start_pos = Pt(MathStart)
    /\ \A i \in 2..Len(saved_segments) :
          StartsFrom(saved_segments[i], ClosedFormExit(saved_segments[i - 1]))
    /\ Len(saved_segments) > 0 =>
          LET exit == ClosedFormExit(saved_segments[Len(saved_segments)])
          IN curr_pos = exit.pos /\ curr_heading = exit.heading
                /\ curr_vel = exit.vel
    /\ Len(saved_segments) = 0 => curr_pos = Pt(MathStart)

\* an acceleration, a quarter turn and a straight leg are saved: the leg
\* starts where and as the turn ends
C19_Witness ==
    /\ Len(saved_segments) = 3
    /\ Len(visual_path_history) = 3
    /\ saved_segments[2].mode = "Turn"
    /\ saved_segments[2].params.turn_rate = MilliDegPerQuarterTurn
    /\ saved_segments[2].duration = 1
    /\ saved_segments[3].start_heading # saved_segments[2].start_heading
    /\ saved_segments[3].start_pos # saved_segments[2].start_pos
    /\ saved_segments[3].mode = "Const Vel"
    /\ saved_segments[3].duration = 2
    /\ saved_segments[1].mode = "Const Accel"
    /\ saved_segments[1].duration = 2
    /\ curr_pos # saved_segments[3].start_pos

----------------------------------------------------------------------------
(* Claims about the control points of WaypointStrategy.generate            *)

WpCalled == wp_call # NoCall

\* the control point a waypoint is compared with: the last waypoint kept
\* before it, or the starting position
LastKeptBefore(start, waypoints, Kept, i) ==
    LET before == {k \in Kept : k < i}
    IN IF before = {} THEN start ELSE waypoints[SetMax(before)]

\* Kept is the set of waypoint indices that survive the deduplication
IsKeptSet(start, waypoints, Kept) ==
    \A i \in 1..Len(waypoints) :
        (i \in Kept) <=>
            FartherThanTolerance(LastKeptBefore(start, waypoints, Kept, i),
                                 waypoints[i])

\* the waypoints with an index in Kept, in order
RECURSIVE Restrict(_, _, _)
Restrict(waypoints, Kept, i) ==
    IF i > Len(waypoints) THEN <<>>
    ELSE (IF i \in Kept THEN <<waypoints[i]>> ELSE <<>>)
            \o Restrict(waypoints, Kept, i + 1)

\* C21: the control points are the starting position followed by the
\* waypoints in order, without every waypoint within 1e-4 of the last kept
\* control point, so no two consecutive control points are closer than
\* 1e-4; with fewer than 2 control points (no waypoint distinct from the
\* start) generate raises a fatal error and returns no path.
C21_ControlPoints ==
    WpCalled =>
        LET start == wp_config.starting_position
            waypoints == wp_config.waypoints
            ret == wp_call.ret
        IN \E Kept \in SUBSET (1..Len(waypoints)) :
            /\ IsKeptSet(start, waypoints, Kept)
            /\ (Kept = {}) <=>
                  (\A i \in 1..Len(waypoints) :
                      ~FartherThanTolerance(start, waypoints[i]))
            /\ IF Kept = {}
               THEN ret = WaypointError /\ "path" \notin DOMAIN ret
               ELSE /\ ret.raised = "none"
                    /\ ret.points_array = <<start>> \o Restrict(waypoints, Kept, 1)
                    /\ Len(ret.points_array) >= 2
                    /\ \A k \in 1..(Len(ret.points_array) - 1) :
                          FartherThanTolerance(ret.points_array[k],
                                               ret.points_array[k + 1])

\* a waypoint equal to the start and a repeated waypoint have been dropped
C21_Witness ==
    /\ WpCalled
    /\ wp_call.ret.raised = "none"
    /\ Len(wp_config.waypoints) = 3
    /\ wp_config.waypoints[1] = wp_config.starting_position
    /\ wp_config.waypoints[2] = wp_config.waypoints[3]
    /\ Len(wp_call.ret.points_array) = 2

\* only the start is left: the error
C21_WitnessError ==
    /\ WpCalled
    /\ Len(wp_config.waypoints) = 2
    /\ wp_call.ret = WaypointError

----------------------------------------------------------------------------
(* Claims about the constant-speed reparameterization                      *)

WpReparameterized == wp_call # NoCall /\ wp_call.ret.raised = "none"

\* q lies on the polyline at path distance dist from its first point
OnPolylineAt(polyline, q, dist) ==
    LET cum == CumulativeDist(polyline)
    IN \E i \in 1..(Len(polyline) - 1) :
        LET a == polyline[i]
            b == polyline[i + 1]
            run == cum[i + 1] - cum[i]
            along == dist - cum[i]
        IN /\ cum[i] <= dist
           /\ dist <= cum[i + 1]
           /\ run = 0 => q = Pt(a)
           /\ \A ax \in 1..3 :
                q.n[ax] * run = (a[ax] * run + (b[ax] - a[ax]) * along) * q.d

\* the path distance of sample k of n on a path of the given length
SampleDistance(k, n, total_length, stride) ==
    IF k < n THEN (k - 1) * stride ELSE total_length

\* C22: the constant-speed reparameterization maps the time grid
\* t_k = k * time_step below total_duration = total_length / velocity, plus
\* a final sample at exactly total_duration, onto the geometric polyline at
\* path distance t_k * velocity: the first position is the first point of
\* the polyline, the last its last point, and consecutive samples are
\* velocity * time_step apart in path distance except for the final,
\* possibly shorter, step.
C22_ConstantSpeedSamples ==
    WpReparameterized =>
        LET polyline == wp_call.ret.geometric_path
            path == wp_call.ret.path
            n == Len(path)
            total_length == PathLength(polyline)
            stride == wp_config.velocity * wp_config.time_step
        IN /\ n >= 2
           /\ (n - 2) * stride < total_length
           /\ total_length <= (n - 1) * stride
           /\ wp_call.ret.metadata.total_distance = total_length
           /\ wp_call.ret.metadata.duration = <<total_length, wp_config.velocity>>
           /\ path[1] = Pt(polyline[1])
           /\ path[n] = Pt(polyline[Len(polyline)])
           /\ \A k \in 1..n :
                OnPolylineAt(polyline, path[k],
                             SampleDistance(k, n, total_length, stride))

\* a polyline of two legs whose length is no multiple of the stride: a
\* sample lies inside the second leg and the final step is shorter
C22_Witness ==
    /\ WpReparameterized
    /\ wp_call.ret.geometric_path = <<<<0, 0, 60>>, <<120, 0, 60>>, <<120, 160, 60>>>>
    /\ Len(wp_call.ret.path) = 4
    /\ wp_call.ret.path[3] = Pt(<<120, 80, 60>>)
    /\ wp_call.ret.path[3] # Pt(wp_call.ret.geometric_path[2])

\* the length is a whole number of strides: the final step is a full one
C22_WitnessWholeStrides ==
    /\ WpReparameterized
    /\ wp_call.ret.geometric_path = <<<<0, 0, 60>>, <<120, 160, 60>>>>
    /\ Len(wp_call.ret.path) = 3

----------------------------------------------------------------------------
(* Claims about the roadmap builder                                        *)

IsPrefix(q, r) == Len(q) <= Len(r) /\ SubSeq(r, 1, Len(q)) = q

\* every node is valid and no two nodes are closer than min_dist
NodesValidAndApart ==
    /\ \A k \in 1..Len(gp_nodes) :
          is_position_valid(bounds, obstacles, Pt(gp_nodes[k]))
    /\ \A k, l \in 1..Len(gp_nodes) :
          k # l => ~Closer(gp_nodes[k], gp_nodes[l], gp_params.min_dist)

\* the sampling loop is left with num nodes or after max_batches batches
SamplingBounded ==
    /\ gp_attempts <= max_batches
    /\ Len(gp_nodes) <= gp_params.num
    /\ gp_pc \in {"connecting", "done"} =>
          (Len(gp_nodes) = gp_params.num \/ gp_attempts = max_batches)

\* C23: roadmap sampling keeps a candidate only if it is valid and at
\* distance >= min_connection_radius from every node accepted before it,
\* in earlier batches or in the same batch: every node passes
\* is_position_valid, every two distinct nodes are at least
\* min_connection_radius apart, accepted nodes stay, the node count never
\* exceeds num_samples, and sampling stops after at most max_batches
\* batches, with fewer than num_samples nodes if no more were accepted.
C23_SamplingKeepsApart ==
    /\ [](gp_pc # "idle" => NodesValidAndApart /\ SamplingBounded)
    /\ [][IsPrefix(gp_nodes, gp_nodes')]_vars

\* the batches are used up with fewer nodes than asked for, and the run
\* has gone on to connect them
C23_Witness ==
    /\ gp_pc = "done"
    /\ gp_attempts = max_batches
    /\ gp_params.num = 3
    /\ gp_params.min_dist = Metres(2)
    /\ Len(gp_nodes) = 2
    /\ gp_nodes[1] = LinePoint(Metres(1))
    /\ gp_nodes[2] = LinePoint(Metres(8))

RoadmapBuilt == gp_pc = "done" /\ Len(gp_nodes) > 1

NodeIds == 0..(Len(gp_nodes) - 1)

WithinRadius(i, j) == Closer(gp_nodes[i + 1], gp_nodes[j + 1], gp_params.radius)

\* j is one of the k_neighbors nodes nearest to i within the radius
AmongNearest(i, j) ==
    /\ i # j
    /\ WithinRadius(i, j)
    /\ Cardinality({o \in NodeIds \ {i} :
            /\ WithinRadius(i, o)
            /\ SqNorm(Sub(gp_nodes[o + 1], gp_nodes[i + 1]))
                  < SqNorm(Sub(gp_nodes[j + 1], gp_nodes[i + 1]))}) < k_neighbors

\* check_line_of_sight between two nodes, from the one of lower index
InSight(i, j) ==
    LET lo == IF i < j THEN i ELSE j
        hi == IF i < j THEN j ELSE i
    IN check_line_of_sight(bounds, obstacles, gp_nodes[lo + 1], gp_nodes[hi + 1],
                           CoarseStep)

\* every edge joins two nodes within the radius that are in sight
EdgesWithinRadiusInSight ==
    \A e \in EdgeSet(gp_adjacency) :
        \E i, j \in NodeIds :
            e = {i, j} /\ i # j /\ WithinRadius(i, j) /\ InSight(i, j)

\* C24: for each node i and each node j among i's up to k = 15 nearest
\* neighbours within max_connection_radius, the roadmap contains the
\* undirected edge {i, j} if and only if check_line_of_sight between the
\* two nodes succeeds at the coarse sampling step; no edge joins nodes
\* that are not within the radius or not in sight.
C24_EdgeIffSightAmongNearest ==
    RoadmapBuilt =>
        /\ \A i, j \in NodeIds :
              AmongNearest(i, j) =>
                  ({i, j} \in EdgeSet(gp_adjacency) <=> InSight(i, j))
        /\ EdgesWithinRadiusInSight

\* what the connecting loop does: the pair {i, j}, i < j, is looked at
\* only among the nearest neighbours of i, the node of lower index
C24_EdgeIffSightFromLowerIndex ==
    RoadmapBuilt =>
        /\ \A i, j \in NodeIds :
              i < j =>
                  ({i, j} \in EdgeSet(gp_adjacency)
                      <=> (AmongNearest(i, j) /\ InSight(i, j)))
        /\ EdgesWithinRadiusInSight

\* node 0 is among the 15 nearest neighbours of node 16 and in sight of
\* it, node 16 is not among the 15 nearest of node 0
C24_Witness ==
    /\ RoadmapBuilt
    /\ Len(gp_nodes) = k_neighbors + 2
    /\ AmongNearest(16, 0)
    /\ ~AmongNearest(0, 16)
    /\ InSight(0, 16)

\* the neighbours listed for node i; a node without edges has no entry
NeighboursOf(i) == Get(gp_adjacency, i, <<>>)

Listed(i, j) == \E k \in 1..Len(NeighboursOf(i)) : NeighboursOf(i)[k] = j

\* C25: the roadmap adjacency is a well-formed undirected graph: j is in
\* adjacency[i] if and only if i is in adjacency[j], no node is its own
\* neighbour, no neighbour appears twice in a node's list, and every
\* neighbour index refers to an existing node.
C25_AdjacencyWellFormed ==
    gp_pc \in {"connecting", "done"} =>
        /\ DOMAIN gp_adjacency \subseteq NodeIds
        /\ \A i \in DOMAIN gp_adjacency :
            LET nbrs == gp_adjacency[i]
            IN /\ \A k \in 1..Len(nbrs) : nbrs[k] \in NodeIds /\ nbrs[k] # i
               /\ \A k, l \in 1..Len(nbrs) : k # l => nbrs[k] # nbrs[l]
        /\ \A i, j \in NodeIds : Listed(i, j) <=> Listed(j, i)

\* three nodes in a row, each joined to the other two: the middle one
\* holds a backward and a forward entry
C25_Witness ==
    /\ gp_pc = "done"
    /\ Len(gp_nodes) = 3
    /\ NeighboursOf(1) = <<0, 2>>
    /\ Listed(0, 1) /\ Listed(2, 1) /\ Listed(0, 2)

C28_WitnessFirst ==
    /\ planner_last.op = "undo_segment"
    /\ planner_last.after_add
    /\ Len(saved_segments) = 0
    /\ curr_heading = NorthEast

----------------------------------------------------------------------------
(* Claims about padding modes in individual mode                           *)

\* path padded to max_steps positions in the given mode
PaddedAs(path, mode, max_steps) ==
    LET n == Len(path) IN
    IF n >= max_steps THEN path
    ELSE IF mode = "pad_end"
    THEN [i \in 1..max_steps |-> IF i <= n THEN path[i] ELSE path[n]]
    ELSE IF mode = "pad_start"
    THEN [i \in 1..max_steps |->
             IF i <= max_steps - n THEN path[1] ELSE path[i - (max_steps - n)]]
    ELSE path

\* the padding mode in force for an id
ModeIn(prefs, j) == IF j \in DOMAIN prefs THEN prefs[j] ELSE "pad_end"

ModeInForce(j) == ModeIn(padding_preferences, j)

LongestOf(paths) ==
    CHOOSE m \in {Len(paths[i]) : i \in DOMAIN paths} :
        \A i \in DOMAIN paths : Len(paths[i]) <= m

\* finalize pads with the mode in force when it runs; set_padding_mode puts
\* its mode in force; generate_path puts the mode it was passed in force,
\* pad_end when it was passed none
ModeInForceSteps ==
    [][/\ call'.op = "finalize_trajectories" =>
            \A j \in DOMAIN jammer_paths :
                jammer_paths'[j] = PaddedAs(jammer_paths[j], ModeInForce(j),
                                            LongestOf(jammer_paths))
       /\ call'.op = "set_padding_mode" =>
            /\ ModeIn(padding_preferences', call'.id) = call'.mode
            /\ jammer_paths' = jammer_paths
       /\ (call'.op = "generate_path" /\ call'.raised = "none") =>
            ModeIn(padding_preferences', call'.id) =
                (IF call'.mode_arg = "omitted" THEN "pad_end"
                 ELSE call'.mode_arg)]_vars

\* in individual mode a jammer is in pad_end between the two calls of its
\* controller, and in the selected mode from then on
SelectedModeInForce ==
    /\ im_pc = "set_padding" =>
          ModeInForce(transmitters_config[im_index]) = "pad_end"
    /\ \A j \in DOMAIN im_selection :
          (im_pc = "set_padding" /\ j = transmitters_config[im_index])
            \/ ModeInForce(j) = im_selection[j]

\* after the synchronization every jammer holds the path its controller
\* returned, padded in the mode selected for it
PaddedAsSelected ==
    im_pc = "saved" =>
        /\ DOMAIN jammer_paths = DOMAIN im_returned
        /\ \A j \in DOMAIN jammer_paths :
              jammer_paths[j] = PaddedAs(im_returned[j], im_selection[j],
                                         LongestOf(im_returned))

\* C30: finalize_trajectories pads each path with the padding mode in force
\* for its id when finalize runs: a set_padding_mode after generate_path
\* and before finalize decides the padding, a generate_path sets the mode
\* to the one passed (pad_end by default); in individual mode, where the
\* controller calls generate_path and then set_padding_mode with the
\* launcher's choice, each jammer's path is padded as selected for it.
C30_PaddedInSelectedMode ==
    /\ ModeInForceSteps
    /\ [](SelectedModeInForce /\ PaddedAsSelected)

\* synchronized: the shorter path, generated in pad_end by default and then
\* set to pad_start, was padded at its start
C30_Witness ==
    /\ im_pc = "saved"
    /\ \E j \in call.padded :
        /\ im_selection[j] = "pad_start"
        /\ Len(im_returned[j]) = 2
        /\ Len(jammer_paths[j]) = 3
        /\ jammer_paths[j][1] = jammer_paths[j][2]
        /\ jammer_paths[j][2] # jammer_paths[j][3]

\* between the two calls of a controller: the selection is pad_start, the
\* mode in force is still pad_end
C30_WitnessBetween ==
    /\ im_pc = "set_padding"
    /\ im_selection[transmitters_config[im_index]] = "pad_start"
    /\ padding_preferences[transmitters_config[im_index]] = "pad_end"

----------------------------------------------------------------------------
(* Specifications                                                          *)

\* the trajectory store
Init ==
    /\ EngineInit
    /\ WorldIdle
    /\ AStarIdle
    /\ GraphNavIdle
    /\ MathIdle
    /\ RandomWalkIdle
    /\ WaypointIdle
    /\ InstancesIdle
    /\ PlannerIdle
    /\ RoadmapIdle
    /\ IndividualIdle

Next ==
    EngineNext
        /\ UNCHANGED <<worldVars, astarVars, graphNavVars, mathVars, randomWalkVars, waypointVars, instanceVars, plannerVars, roadmapVars, individualVars>>

Spec == Init /\ [][Next]_vars

\* is_position_valid calls on every world and position of the model
InitValid ==
    /\ ValidInit
    /\ EngineIdle
    /\ AStarIdle
    /\ GraphNavIdle
    /\ MathIdle
    /\ RandomWalkIdle
    /\ WaypointIdle
    /\ InstancesIdle
    /\ PlannerIdle
    /\ RoadmapIdle
    /\ IndividualIdle

NextValid ==
    call_is_position_valid
        /\ UNCHANGED <<engineVars, astarVars, graphNavVars, mathVars, randomWalkVars, waypointVars, instanceVars, plannerVars, roadmapVars, individualVars>>

SpecValid == InitValid /\ [][NextValid]_vars

\* check_line_of_sight calls on every world and segment of the model
InitLos ==
    /\ LosInit
    /\ EngineIdle
    /\ AStarIdle
    /\ GraphNavIdle
    /\ MathIdle
    /\ RandomWalkIdle
    /\ WaypointIdle
    /\ InstancesIdle
    /\ PlannerIdle
    /\ RoadmapIdle
    /\ IndividualIdle

NextLos ==
    call_check_line_of_sight
        /\ UNCHANGED <<engineVars, astarVars, graphNavVars, mathVars, randomWalkVars, waypointVars, instanceVars, plannerVars, roadmapVars, individualVars>>

SpecLos == InitLos /\ [][NextLos]_vars

\* a_star_search calls on every graph of the model
InitAStar ==
    /\ AStarInit
    /\ EngineIdle
    /\ WorldIdle
    /\ GraphNavIdle
    /\ MathIdle
    /\ RandomWalkIdle
    /\ WaypointIdle
    /\ InstancesIdle
    /\ PlannerIdle
    /\ RoadmapIdle
    /\ IndividualIdle

NextAStar ==
    call_a_star_search
        /\ UNCHANGED <<engineVars, worldVars, graphNavVars, mathVars, randomWalkVars, waypointVars, instanceVars, plannerVars, roadmapVars, individualVars>>

SpecAStar == InitAStar /\ [][NextAStar]_vars

\* one GraphNavStrategy.generate call on every config and world of the model
InitGraphNav ==
    /\ GraphNavInit
    /\ EngineIdle
    /\ AStarIdle
    /\ MathIdle
    /\ RandomWalkIdle
    /\ WaypointIdle
    /\ InstancesIdle
    /\ PlannerIdle
    /\ RoadmapIdle
    /\ IndividualIdle

NextGraphNav ==
    GraphNavNext
        /\ UNCHANGED <<engineVars, worldVars, astarVars, mathVars, randomWalkVars, waypointVars, instanceVars, plannerVars, roadmapVars, individualVars>>

SpecGraphNav == InitGraphNav /\ [][NextGraphNav]_vars

\* the call runs: generate is straight-line code that takes its next step
SpecGraphNavFair == SpecGraphNav /\ WF_vars(NextGraphNav)

\* one MathStrategy.generate call on every config of the model
InitMath ==
    /\ MathInit
    /\ EngineIdle
    /\ WorldIdle
    /\ AStarIdle
    /\ GraphNavIdle
    /\ RandomWalkIdle
    /\ WaypointIdle
    /\ InstancesIdle
    /\ PlannerIdle
    /\ RoadmapIdle
    /\ IndividualIdle

NextMath ==
    call_math_generate
        /\ UNCHANGED <<engineVars, worldVars, astarVars, graphNavVars, randomWalkVars, waypointVars, instanceVars, plannerVars, roadmapVars, individualVars>>

SpecMath == InitMath /\ [][NextMath]_vars

\* one RandomWalkStrategy.generate call on every config and world of the model
InitRandomWalk ==
    /\ RandomWalkInit
    /\ EngineIdle
    /\ AStarIdle
    /\ GraphNavIdle
    /\ MathIdle
    /\ WaypointIdle
    /\ InstancesIdle
    /\ PlannerIdle
    /\ RoadmapIdle
    /\ IndividualIdle

NextRandomWalk ==
    RandomWalkNext
        /\ UNCHANGED <<engineVars, worldVars, astarVars, graphNavVars, mathVars, waypointVars, instanceVars, plannerVars, roadmapVars, individualVars>>

SpecRandomWalk == InitRandomWalk /\ [][NextRandomWalk]_vars

\* one WaypointStrategy.generate call on every config and world of the model
InitWaypoint ==
    /\ WaypointInit
    /\ EngineIdle
    /\ AStarIdle
    /\ GraphNavIdle
    /\ MathIdle
    /\ RandomWalkIdle
    /\ InstancesIdle
    /\ PlannerIdle
    /\ RoadmapIdle
    /\ IndividualIdle

NextWaypoint ==
    call_waypoint_generate
        /\ UNCHANGED <<engineVars, worldVars, astarVars, graphNavVars, mathVars, randomWalkVars, instanceVars, plannerVars, roadmapVars, individualVars>>

SpecWaypoint == InitWaypoint /\ [][NextWaypoint]_vars

\* generate calls, one after another, on two GraphNavStrategy instances
InitInstances ==
    /\ InstancesInit
    /\ EngineIdle
    /\ AStarIdle
    /\ MathIdle
    /\ RandomWalkIdle
    /\ WaypointIdle
    /\ PlannerIdle
    /\ RoadmapIdle
    /\ IndividualIdle

NextInstances ==
    InstancesNext
        /\ UNCHANGED <<engineVars, worldVars, astarVars, mathVars, randomWalkVars, waypointVars, plannerVars, roadmapVars, individualVars>>

SpecInstances == InitInstances /\ [][NextInstances]_vars

\* the math planner: segments added and undone
InitPlanner ==
    /\ PlannerInit
    /\ EngineIdle
    /\ WorldIdle
    /\ AStarIdle
    /\ GraphNavIdle
    /\ MathIdle
    /\ RandomWalkIdle
    /\ WaypointIdle
    /\ InstancesIdle
    /\ RoadmapIdle
    /\ IndividualIdle

NextPlanner ==
    PlannerNext
        /\ UNCHANGED <<engineVars, worldVars, astarVars, graphNavVars, mathVars, randomWalkVars, waypointVars, instanceVars, roadmapVars, individualVars>>

SpecPlanner == InitPlanner /\ [][NextPlanner]_vars

\* one run of the roadmap builder on every setting of the model
InitRoadmap ==
    /\ RoadmapInit
    /\ EngineIdle
    /\ AStarIdle
    /\ GraphNavIdle
    /\ MathIdle
    /\ RandomWalkIdle
    /\ WaypointIdle
    /\ InstancesIdle
    /\ PlannerIdle
    /\ IndividualIdle

NextRoadmap ==
    RoadmapNext
        /\ UNCHANGED <<engineVars, worldVars, astarVars, graphNavVars, mathVars, randomWalkVars, waypointVars, instanceVars, plannerVars, individualVars>>

SpecRoadmap == InitRoadmap /\ [][NextRoadmap]_vars

\* individual mode: each transmitter configured by its controller, then the synchronization
InitIndividual ==
    /\ IndividualInit
    /\ WorldIdle
    /\ AStarIdle
    /\ GraphNavIdle
    /\ MathIdle
    /\ RandomWalkIdle
    /\ WaypointIdle
    /\ InstancesIdle
    /\ PlannerIdle
    /\ RoadmapIdle

NextIndividual ==
    IndividualNext
        /\ UNCHANGED <<worldVars, astarVars, graphNavVars, mathVars, randomWalkVars, waypointVars, instanceVars, plannerVars, roadmapVars>>

SpecIndividual == InitIndividual /\ [][NextIndividual]_vars

\* one generate call of one strategy: MathStrategy or GraphNavStrategy
InitStrategies ==
    /\ EngineIdle
    /\ AStarIdle
    /\ RandomWalkIdle
    /\ WaypointIdle
    /\ InstancesIdle
    /\ PlannerIdle
    /\ RoadmapIdle
    /\ IndividualIdle
    /\ \/ MathInit /\ GraphNavIdle /\ WorldIdle
       \/ GraphNavInit /\ MathIdle

NextStrategies ==
    \/ /\ call_math_generate
       /\ UNCHANGED <<engineVars, worldVars, astarVars, graphNavVars, randomWalkVars, waypointVars, instanceVars, plannerVars, roadmapVars, individualVars>>
    \/ /\ GraphNavNext
       /\ UNCHANGED <<engineVars, worldVars, astarVars, mathVars, randomWalkVars, waypointVars, instanceVars, plannerVars, roadmapVars, individualVars>>

SpecStrategies == InitStrategies /\ [][NextStrategies]_vars

====
